---- MODULE Spec2Model ----
(***************************************************************************)
(* Receive path of the FEAGI embodiment controllers.                       *)
(*                                                                         *)
(*   usb    micro:bit, transport-usb build: FeagiProtocol (protocol.rs)    *)
(*   ble    micro:bit, transport-ble build: BluetoothService (bluetooth.rs)*)
(*   esp32  ESP32 controller: UART accumulator of the main loop            *)
(*                                                                         *)
(* One behaviour follows one firmware build (a cargo feature or a          *)
(* different binary selects it).  The host's byte stream is `input`; each  *)
(* receive action hands the decoder the next chunk of it.                  *)
(***************************************************************************)
EXTENDS Integers, Sequences, FiniteSets, TLC

VARIABLES
    transport,       \* which firmware build this behaviour follows
    input,           \* bytes the host has sent and the firmware has not read yet
    fed,             \* bytes already handed to the receiver, in order
    rx_buffer,       \* FeagiProtocol.rx_buffer      : Vec<u8, 256>
    commands,        \* FeagiProtocol.commands       : Vec<Command, 8>
    last_call,       \* what the most recent process_received_data call did
    result,          \* return value of the most recent receive_* call
    delivered,       \* the Commands returned so far, oldest first (for
                     \* receive_neuron_data: the coordinates, as NeuronFiring)
    receive_buffer,  \* BluetoothService.receive_buffer : Vec<u8, 256>
    rx_accumulator,  \* ESP32 main: rx_accumulator   : Vec<u8, 512>
    message_str,     \* ESP32 main: message_str of the most recent extraction
    last_op,         \* name of the operation that ran last ("new" at the start)
    BLE_RX_BUFFER,   \* micro:bit main.rs: static Option<Vec<u8, 256>>, BLE task -> main
    BLE_TX_BUFFER,   \* micro:bit main.rs: static Option<Vec<u8, 256>>, main -> BLE task
    display_buffer,  \* micro:bit main (transport-ble): [[u8; 5]; 5], [y][x]
    BURST_FREQUENCY_HZ, \* ESP32 config.rs: the burst frequency of the build
    GPIO_CONFIG,     \* ESP32 config.rs: &[GpioPinConfig]
    uart,            \* ESP32 main: whether `uart` is Some (UartDriver::new succeeded)
    frame_number,    \* ESP32 main: frame_number: u64
    iterations,      \* loop iterations completed in this behaviour
    gpio_in,         \* level the input pins had when the last iteration read them
    gpio_out,        \* level each pin was last driven to ("None": never driven)
    sensory_data,    \* ESP32 main: sensory_data of the last iteration
    uart_tx,         \* what the last iteration wrote to the UART
    motor,           \* (neuron_id, value) the last iteration parsed from a message
    delay,           \* argument of the delay_ms that ended the last iteration
    connected,       \* BluetoothService.connected : bool
    last_set,        \* argument of the most recent set_connected call (None: no call)
    ble_stack        \* BleStack: its connected, connection and advertiser fields

vars == <<transport, input, fed, rx_buffer, commands, last_call, result,
          delivered, receive_buffer, rx_accumulator, message_str, last_op,
          BLE_RX_BUFFER, BLE_TX_BUFFER, display_buffer,
          BURST_FREQUENCY_HZ, GPIO_CONFIG, uart, frame_number, iterations, gpio_in,
          gpio_out, sensory_data, uart_tx, motor, delay,
          connected, last_set, ble_stack>>

\* The state of the BLE control loop that the receivers themselves never touch.
loop_vars == <<BLE_RX_BUFFER, BLE_TX_BUFFER, display_buffer>>

\* The state of the ESP32 control loops, which the receivers and the micro:bit
\* loops never touch.
control_vars == <<BURST_FREQUENCY_HZ, GPIO_CONFIG, uart, frame_number, iterations,
                  gpio_in, gpio_out, sensory_data, uart_tx, motor, delay>>

\* The state of the BLE link, which the receivers' parsing and the control
\* loops never touch.
link_vars == <<connected, last_set, ble_stack>>

-----------------------------------------------------------------------------
(* Capacities of the heapless containers.                                  *)

RxBufferCap == 256
CommandsCap == 8
CoordinatesCap == 25
ReceiveBufferCap == 256
RxAccumulatorCap == 512
UartReadCap == 512
MessageStrCap == 512

(* Wire ids of the commands.                                               *)
IdNeuronFiring == 1
IdSetGpio == 2
IdSetPwm == 3
IdSetLedMatrix == 4
IdGetCapabilities == 5

Newline == 10

-----------------------------------------------------------------------------
(* Values.                                                                 *)

None == [tag |-> "None"]

\* BleStack::new: Ok(Self { connected: false, connection: None, advertiser: None, .. })
NewBleStack == [connected |-> FALSE, connection |-> None, advertiser |-> None]

\* BluetoothService::new: connected: false; the BleStack as BleStack::new
\* leaves it.
LinkIdle ==
    /\ connected = FALSE
    /\ last_set = None
    /\ ble_stack = NewBleStack

NeuronFiring(coords) == [tag |-> "NeuronFiring", coordinates |-> coords]
SetGpio(p, v) == [tag |-> "SetGpio", pin |-> p, value |-> v]
SetPwm(p, d) == [tag |-> "SetPwm", pin |-> p, duty |-> d]
SetLedMatrix(d) == [tag |-> "SetLedMatrix", data |-> d]
GetCapabilities == [tag |-> "GetCapabilities"]

Min(a, b) == IF a < b THEN a ELSE b

-----------------------------------------------------------------------------
(* heapless::Vec                                                           *)

\* Vec::push: Err (and the vector unchanged) when the vector is full.
PushFails(v, cap) == Len(v) >= cap

Push(v, x, cap) == IF PushFails(v, cap) THEN v ELSE Append(v, x)

\* RemoveFront with an inclusive range: one element too many.
RemoveFrontInclusive(v, n) == SubSeq(v, n + 2, Len(v))

\* n times Vec::remove(0).
RemoveFront(v, n) == SubSeq(v, n + 1, Len(v))

-----------------------------------------------------------------------------
(* protocol.rs: FeagiProtocol                                              *)

\* PushAll into a buffer that grows without limit.
PushAllUnbounded(buf, data) == buf \o data

\* PushAll with the bytes of earlier calls thrown away.
PushAllReplacing(buf, data) ==
    SubSeq(data, 1, Min(Len(data), RxBufferCap))

\* process_received_data, the loop `let _ = self.rx_buffer.push(byte)`: every
\* push after the vector is full fails and is ignored, so the bytes that fit
\* are appended and the rest of `data` is lost.
PushAll(buf, data) ==
    IF PushFails(buf \o data, RxBufferCap + 1)
    THEN SubSeq(buf \o data, 1, RxBufferCap)
    ELSE buf \o data

\* PairInPayload with the bound one byte too far.
PairInPayloadStrict(payload, i) == 1 + i * 2 + 2 < Len(payload)

\* The `if` inside the coordinate loop of the 0x01 arm (i counts from 0).
PairInPayload(payload, i) == 1 + i * 2 + 1 < Len(payload)

\* Coordinates that reads its pairs from the count byte on.
CoordinatesFromCountByte(payload, count) ==
    LET inside == { i \in 0..(count - 1) : PairInPayload(payload, i) }
    IN [j \in 1..Min(Cardinality(inside), CoordinatesCap) |->
            <<payload[(j - 1) * 2 + 1], payload[(j - 1) * 2 + 2]>>]

\* The coordinate loop of the 0x01 arm, `for i in 0..count`: the pairs that lie
\* inside the payload are pushed in order of i (they are the i below some
\* limit), and `let _ = coords.push(..)` drops those after the 25th.
Coordinates(payload, count) ==
    LET inside == { i \in 0..(count - 1) : PairInPayload(payload, i) }
    IN [j \in 1..Min(Cardinality(inside), CoordinatesCap) |->
            <<payload[1 + (j - 1) * 2 + 1], payload[1 + (j - 1) * 2 + 2]>>]

\* The match of parse_packets: the Command the arm builds, or None.
DecodeNeuronFiring(payload) ==
    IF Len(payload) >= 1 /\ Len(payload) % 2 = 1
    THEN NeuronFiring(Coordinates(payload, payload[1]))
    ELSE None

\* DecodeSetGpio that accepts longer payloads too.
DecodeSetGpioAtLeast(payload) ==
    IF Len(payload) >= 2 THEN SetGpio(payload[1], payload[2] # 0) ELSE None

DecodeSetGpio(payload) ==
    IF Len(payload) = 2 THEN SetGpio(payload[1], payload[2] # 0) ELSE None

DecodeSetPwm(payload) ==
    IF Len(payload) = 2 THEN SetPwm(payload[1], payload[2]) ELSE None

DecodeSetLedMatrix(payload) ==
    IF Len(payload) = 25 THEN SetLedMatrix(payload) ELSE None

\* DecodeGetCapabilities that insists on an empty payload.
DecodeGetCapabilitiesEmptyOnly(payload) ==
    IF Len(payload) = 0 THEN GetCapabilities ELSE None

DecodeGetCapabilities(payload) == GetCapabilities

\* DecodeCommand whose last arm answers every id from 0x05 up.
DecodeCommandOpenArm(cmd_id, payload) ==
    CASE cmd_id = IdNeuronFiring -> DecodeNeuronFiring(payload)
      [] cmd_id = IdSetGpio -> DecodeSetGpio(payload)
      [] cmd_id = IdSetPwm -> DecodeSetPwm(payload)
      [] cmd_id = IdSetLedMatrix -> DecodeSetLedMatrix(payload)
      [] cmd_id >= IdGetCapabilities -> DecodeGetCapabilities(payload)
      [] OTHER -> None

DecodeCommand(cmd_id, payload) ==
    CASE cmd_id = IdNeuronFiring -> DecodeNeuronFiring(payload)
      [] cmd_id = IdSetGpio -> DecodeSetGpio(payload)
      [] cmd_id = IdSetPwm -> DecodeSetPwm(payload)
      [] cmd_id = IdSetLedMatrix -> DecodeSetLedMatrix(payload)
      [] cmd_id = IdGetCapabilities -> DecodeGetCapabilities(payload)
      [] OTHER -> None

\* `let _ = self.commands.push(cmd)`.
PushCommand(cmds, cmd) == Push(cmds, cmd, CommandsCap)

\* The `break` of parse_packets: the packet at the head is not all there.
NeedMoreData(buf) == Len(buf) < 2 \/ Len(buf) < 2 + buf[2]

\* parse_packets.  `log` records each iteration of the while loop: the
\* header, the payload slice, the Command the arm built (or None), and the
\* buffer before and after the packet was removed.
RECURSIVE parse_packets(_, _, _)
parse_packets(buf, cmds, log) ==
    IF NeedMoreData(buf)
    THEN [rx_buffer |-> buf, commands |-> cmds, parsed |-> log]
    ELSE LET cmd_id == buf[1]
             payload_len == buf[2]
             payload == SubSeq(buf, 3, 2 + payload_len)
             cmd == DecodeCommand(cmd_id, payload)
             rest == RemoveFront(buf, 2 + payload_len)
         IN parse_packets(rest,
                IF cmd = None THEN cmds ELSE PushCommand(cmds, cmd),
                Append(log, [cmd_id |-> cmd_id, payload_len |-> payload_len,
                             payload |-> payload, cmd |-> cmd,
                             before |-> buf, after |-> rest]))

\* process_received_data that empties rx_buffer once parse_packets returns.
process_received_data_clearing(buf, cmds, data) ==
    [parse_packets(PushAll(buf, data), cmds, <<>>) EXCEPT !.rx_buffer = <<>>]

process_received_data(buf, cmds, data) ==
    parse_packets(PushAll(buf, data), cmds, <<>>)

-----------------------------------------------------------------------------
(* bluetooth.rs: BluetoothService                                          *)

\* process_received_data: push each byte; on Err clear the buffer and break.
\* A push fails exactly when `data` holds more bytes than the buffer has room for.
BlePushAll(buf, data) ==
    IF PushFails(buf \o data, ReceiveBufferCap + 1) THEN <<>> ELSE buf \o data

\* BleCoordinates that reads the pairs from the start of the buffer, header included.
RECURSIVE BleCoordinatesFromStart(_, _, _, _)
BleCoordinatesFromStart(buf, count, i, coords) ==
    IF i >= count \/ PushFails(coords, CoordinatesCap) THEN coords
    ELSE BleCoordinatesFromStart(buf, count, i + 1,
             Append(coords, <<buf[i * 2 + 1], buf[i * 2 + 2]>>))

\* The coordinate loop of parse_neuron_firing_packet: `for i in 0..count`,
\* leaving the loop when coords.push fails.
RECURSIVE BleCoordinates(_, _, _, _)
BleCoordinates(buf, count, i, coords) ==
    IF i >= count \/ PushFails(coords, CoordinatesCap) THEN coords
    ELSE BleCoordinates(buf, count, i + 1,
             Append(coords, <<buf[2 + i * 2 + 1], buf[2 + i * 2 + 2]>>))

\* ShiftAndTruncate that pops `consumed` bytes without shifting first.
ShiftAndTruncateUnshifted(buf, consumed) ==
    SubSeq(buf, 1, IF Len(buf) >= consumed THEN Len(buf) - consumed ELSE 0)

\* "Remove consumed bytes by shifting remaining data", then pop `consumed` times.
ShiftAndTruncate(buf, consumed) ==
    LET shifted == [i \in 1..Len(buf) |->
                        IF i + consumed <= Len(buf) THEN buf[i + consumed] ELSE buf[i]]
    IN SubSeq(shifted, 1, IF Len(buf) >= consumed THEN Len(buf) - consumed ELSE 0)

\* BleReturnsNone without the `count > 25` return.
BleReturnsNoneAnyCount(buf) ==
    \/ Len(buf) < 2
    \/ buf[1] # IdNeuronFiring
    \/ Len(buf) < 2 + buf[2] * 2

\* The three early returns of parse_neuron_firing_packet.
BleReturnsNone(buf) ==
    \/ Len(buf) < 2
    \/ buf[1] # IdNeuronFiring
    \/ buf[2] > CoordinatesCap
    \/ Len(buf) < 2 + buf[2] * 2

\* parse_neuron_firing_packet: Option<Vec<(u8, u8), 25>> and the buffer it leaves.
parse_neuron_firing_packet(buf) ==
    IF BleReturnsNone(buf)
    THEN [coords |-> None, receive_buffer |-> buf]
    ELSE LET count == buf[2]
         IN [coords |-> [tag |-> "Some",
                         coordinates |-> BleCoordinates(buf, count, 0, <<>>)],
             receive_buffer |-> ShiftAndTruncate(buf, 2 + count * 2)]

-----------------------------------------------------------------------------
(* esp32/firmware/controller/src/main.rs: step 3 of the main loop          *)

\* "Accumulate received data": push each byte, break at the first Err.
\* The bytes that fit are appended; the rest of this read is lost.
Accumulate(acc, data) ==
    IF PushFails(acc \o data, RxAccumulatorCap + 1)
    THEN SubSeq(acc \o data, 1, RxAccumulatorCap)
    ELSE acc \o data

\* rx_accumulator.iter().position(|&b| b == b'\n'), 0 for None, else index + 1.
NewlinePosition(acc) ==
    LET at == { i \in 1..Len(acc) : acc[i] = Newline }
    IN IF at = {} THEN 0 ELSE CHOOSE i \in at : \A j \in at : i <= j

IsAscii(b) == b < 128

\* message_str: the ASCII bytes before the newline.
ExtractMessage(bytes) ==
    LET ascii == SelectSeq(bytes, IsAscii)
    IN SubSeq(ascii, 1, Min(Len(ascii), MessageStrCap))

-----------------------------------------------------------------------------
(* micro:bit main.rs (transport-ble) and led_display.rs: the display buffer *)
(* and the dispatch of a Command.                                           *)

\* Option::Some of a handoff slot.
Some(v) == [tag |-> "Some", value |-> v]

DisplaySize == 5
PixelOn == 255
HandoffCap == 256

\* [[0; 5]; 5]
ClearedDisplay ==
    [y \in 0..(DisplaySize - 1) |-> [x \in 0..(DisplaySize - 1) |-> 0]]

\* SetMatrixFrom that walks the data column by column.
RECURSIVE SetMatrixFromColumnMajor(_, _, _)
SetMatrixFromColumnMajor(buf, data, i) ==
    IF i >= Len(data) THEN buf
    ELSE SetMatrixFromColumnMajor(
             [buf EXCEPT ![i % DisplaySize][i \div DisplaySize] = data[i + 1]],
             data, i + 1)

\* The SetLedMatrix arm and LedDisplay::set_matrix:
\* for (i, &brightness) in data.iter().enumerate() { buffer[i / 5][i % 5] = brightness }
RECURSIVE SetMatrixFrom(_, _, _)
SetMatrixFrom(buf, data, i) ==
    IF i >= Len(data) THEN buf
    ELSE SetMatrixFrom(
             [buf EXCEPT ![i \div DisplaySize][i % DisplaySize] = data[i + 1]],
             data, i + 1)

set_matrix(buf, data) == SetMatrixFrom(buf, data, 0)

\* for &(x, y) in coordinates.iter() { if x < 5 && y < 5 { buffer[y][x] = 255 } }
RECURSIVE SetPixels(_, _)
SetPixels(buf, coordinates) ==
    IF coordinates = <<>> THEN buf
    ELSE LET x == Head(coordinates)[1]
             y == Head(coordinates)[2]
         IN SetPixels(IF x < DisplaySize /\ y < DisplaySize
                      THEN [buf EXCEPT ![y][x] = PixelOn]
                      ELSE buf,
                      Tail(coordinates))

\* update_from_neurons without the clear: the new pixels are added to the old.
update_from_neurons_merging(buf, coordinates) == SetPixels(buf, coordinates)

\* The NeuronFiring arm and LedDisplay::update_from_neurons: clear, then set.
update_from_neurons(buf, coordinates) == SetPixels(ClearedDisplay, coordinates)

\* The capabilities string of the GetCapabilities arm, as bytes.
CapabilitiesJson ==
    <<123, 34, 115, 101, 110, 115, 111, 114, 115, 34, 58, 123, 34, 97, 99, 99,
      101, 108, 34, 58, 116, 114, 117, 101, 44, 34, 109, 97, 103, 34, 58, 116,
      114, 117, 101, 44, 34, 116, 101, 109, 112, 34, 58, 116, 114, 117, 101, 44,
      34, 98, 117, 116, 116, 111, 110, 115, 34, 58, 116, 114, 117, 101, 125, 44,
      34, 103, 112, 105, 111, 34, 58, 123, 34, 100, 105, 103, 105, 116, 97, 108,
      34, 58, 56, 44, 34, 97, 110, 97, 108, 111, 103, 34, 58, 51, 44, 34, 112,
      119, 109, 34, 58, 56, 125, 44, 34, 100, 105, 115, 112, 108, 97, 121, 34,
      58, 123, 34, 109, 97, 116, 114, 105, 120, 34, 58, 116, 114, 117, 101, 125,
      125>>

\* get_capabilities_data whose buffer is cleared when a push fails.
get_capabilities_data_clearing(caps) ==
    IF PushFails(caps, HandoffCap + 1) THEN <<>> ELSE caps

\* BluetoothService::get_capabilities_data: the bytes of caps that fit in
\* a Vec<u8, 256> (push, break at the first Err).
get_capabilities_data(caps) ==
    IF PushFails(caps, HandoffCap + 1) THEN SubSeq(caps, 1, HandoffCap) ELSE caps

\* The `match cmd` of the BLE main loop: the display buffer and the outbound
\* slot it leaves.  gpio.set_digital and gpio.set_pwm keep no state.
Dispatch(cmd, display, tx) ==
    CASE cmd.tag = "SetLedMatrix" ->
             [display_buffer |-> set_matrix(display, cmd.data), BLE_TX_BUFFER |-> tx]
      [] cmd.tag = "NeuronFiring" ->
             [display_buffer |-> update_from_neurons(display, cmd.coordinates),
              BLE_TX_BUFFER |-> tx]
      [] cmd.tag = "GetCapabilities" ->
             [display_buffer |-> display,
              BLE_TX_BUFFER |-> Some(get_capabilities_data(CapabilitiesJson))]
      [] OTHER ->
             [display_buffer |-> display, BLE_TX_BUFFER |-> tx]

-----------------------------------------------------------------------------
(* Unsigned integers of the ESP32 firmware.                                 *)
(* A u32 or u64 does not fit the integers of the model checker, so a value  *)
(* is kept as its 16-bit limbs, least significant first: a u32 is two limbs *)
(* and a u64 four.  Every operation below is the machine operation, limb by *)
(* limb, carries included.                                                  *)

LimbBase == 256 * 256
LimbMax == LimbBase - 1
U32Limbs == 2
U64Limbs == 4

RECURSIVE Limbs(_, _)
Limbs(w, limb) == IF w = 0 THEN <<>> ELSE Append(Limbs(w - 1, limb), limb)

Zero(w) == Limbs(w, 0)
MaxValue(w) == Limbs(w, LimbMax)
IsZero(n) == \A i \in DOMAIN n : n[i] = 0

\* A small constant (below 2^16) as a w-limb value.
Small(w, k) == <<k>> \o Limbs(w - 1, 0)

\* n + carry, limb by limb from the least significant: the limbs of the sum
\* and the carry out of the top limb.
RECURSIVE AddFrom(_, _, _, _)
AddFrom(n, carry, i, out) ==
    IF i > Len(n) THEN [value |-> out, carry |-> carry]
    ELSE AddFrom(n, (n[i] + carry) \div LimbBase, i + 1,
                 Append(out, (n[i] + carry) % LimbBase))

\* An add that stops at the maximum instead of wrapping (u64::saturating_add).
saturating_add(n, k) ==
    IF AddFrom(n, k, 1, <<>>).carry > 0 THEN MaxValue(Len(n))
    ELSE AddFrom(n, k, 1, <<>>).value

\* uN::wrapping_add(n, k) for k < 2^16: the carry out of the top limb is dropped.
wrapping_add(n, k) == AddFrom(n, k, 1, <<>>).value

\* n - borrow, limb by limb: the limbs of the difference and the borrow out
\* of the top limb.
RECURSIVE SubFrom(_, _, _, _)
SubFrom(n, borrow, i, out) ==
    IF i > Len(n) THEN [value |-> out, borrow |-> borrow]
    ELSE IF n[i] < borrow
         THEN SubFrom(n, 1, i + 1, Append(out, n[i] + LimbBase - borrow))
         ELSE SubFrom(n, 0, i + 1, Append(out, n[i] - borrow))

\* n - k overflows (k < 2^16): the debug build panics, the release build wraps.
SubOverflows(n, k) == SubFrom(n, k, 1, <<>>).borrow > 0

\* uN::wrapping_sub(n, k) for k < 2^16.
wrapping_sub(n, k) == SubFrom(n, k, 1, <<>>).value

\* The long division of n by d (d < 2^15), from the top limb down: the limbs
\* of the quotient and the remainder.
RECURSIVE DivFrom(_, _, _, _, _)
DivFrom(n, d, i, rem, out) ==
    IF i = 0 THEN [quot |-> out, rem |-> rem]
    ELSE DivFrom(n, d, i - 1, (rem * LimbBase + n[i]) % d,
                 <<(rem * LimbBase + n[i]) \div d>> \o out)

\* n / d and n % d.
Div(n, d) == DivFrom(n, d, Len(n), 0, <<>>).quot
Rem(n, d) == DivFrom(n, d, Len(n), 0, <<>>).rem

\* n.checked_mul(10) and checked_add(carry), limb by limb: the limbs of
\* n * 10 + carry and the carry out of the top limb (not 0: overflow).
RECURSIVE MulAdd10From(_, _, _, _)
MulAdd10From(n, carry, i, out) ==
    IF i > Len(n) THEN [value |-> out, carry |-> carry]
    ELSE MulAdd10From(n, (n[i] * 10 + carry) \div LimbBase, i + 1,
                      Append(out, (n[i] * 10 + carry) % LimbBase))

\* a < b, compared from the top limb down.
RECURSIVE LessFrom(_, _, _)
LessFrom(a, b, i) ==
    IF i = 0 THEN FALSE
    ELSE IF a[i] # b[i] THEN a[i] < b[i] ELSE LessFrom(a, b, i - 1)

Less(a, b) == LessFrom(a, b, Len(a))

-----------------------------------------------------------------------------
(* esp32/firmware/controller/src/main.rs: text.  A str or heapless String   *)
(* is the sequence of its bytes (all the firmware's text is ASCII).         *)

Digit0 == 48
Digit9 == 57
Plus == 43
Minus == 45
Dot == 46
Colon == 58
DigitsCap == 16
IdStrCap == 16
FrameStrCap == 16
JsonCap == 512

Reverse(s) == [i \in 1..Len(s) |-> s[Len(s) + 1 - i]]

IsDigit(c) == Digit0 <= c /\ c <= Digit9

\* heapless String::push_str: all of t or, if it does not fit, nothing (Err).
PushStrCutting(s, t, cap) == SubSeq(s \o t, 1, Min(Len(s) + Len(t), cap))

PushStr(s, t, cap) == IF Len(s) + Len(t) > cap THEN s ELSE s \o t

\* digits.push(b'0' + (num % 10)); num /= 10, while num > 0: the decimal
\* digits, least significant first, into a Vec<u8, 16> whose push errors are
\* ignored.
RECURSIVE DigitsOf(_, _)
DigitsOf(num, digits) ==
    IF IsZero(num) THEN digits
    ELSE DigitsOf(Div(num, 10), Push(digits, Digit0 + Rem(num, 10), DigitsCap))

\* The digits written most significant first, each with String::push.
DecimalText(n, cap) ==
    IF IsZero(n) THEN PushStr(<<>>, <<Digit0>>, cap)
    ELSE LET digits == Reverse(DigitsOf(n, <<>>))
         IN SubSeq(digits, 1, Min(Len(digits), cap))

\* u32_to_string::<N>(n, &mut buf): the text left in buf.
u32_to_string(n, N) == DecimalText(n, N)

\* u64_to_string::<N>(n, &mut buf): the text left in buf.
u64_to_string(n, N) == DecimalText(n, N)

\* The digits of s read as a u32, most significant first: checked_mul(10) and
\* checked_add(digit) per character, None at a non-digit or on overflow.
RECURSIVE ParseDigits(_, _, _)
ParseDigits(s, i, acc) ==
    IF i > Len(s) THEN Some(acc)
    ELSE IF ~IsDigit(s[i]) THEN None
    ELSE LET next == MulAdd10From(acc, s[i] - Digit0, 1, <<>>)
         IN IF next.carry > 0 THEN None ELSE ParseDigits(s, i + 1, next.value)

\* str::parse::<u32>() (core::num, from_str_radix 10): empty, a lone sign,
\* a '-', a non-digit and a value above u32::MAX are errors; one leading '+'
\* is accepted.
parse_u32(s) ==
    IF s = <<>> THEN None
    ELSE IF Len(s) = 1 /\ s[1] \in {Plus, Minus} THEN None
    ELSE IF s[1] = Plus THEN ParseDigits(Tail(s), 1, Zero(U32Limbs))
    ELSE ParseDigits(s, 1, Zero(U32Limbs))

\* str::rfind(':'): the index (from 1) of the last ':', 0 for None.
RFindColon(s) ==
    LET at == { i \in 1..Len(s) : s[i] = Colon }
    IN IF at = {} THEN 0 ELSE CHOOSE i \in at : \A j \in at : j <= i

\* parse_neuron_id that splits at the first ':' (str::find).
parse_neuron_id_first_colon(mapping) ==
    IF parse_u32(mapping) # None THEN parse_u32(mapping)
    ELSE LET at == { i \in 1..Len(mapping) : mapping[i] = Colon }
             idx == IF at = {} THEN 0 ELSE CHOOSE i \in at : \A j \in at : i <= j
         IN IF idx > 0 THEN parse_u32(SubSeq(mapping, idx + 1, Len(mapping)))
            ELSE None

\* parse_neuron_id(mapping)
parse_neuron_id(mapping) ==
    LET whole == parse_u32(mapping)
        idx == RFindColon(mapping)
    IN IF whole # None THEN whole
       ELSE IF idx > 0 THEN parse_u32(SubSeq(mapping, idx + 1, Len(mapping)))
       ELSE None

-----------------------------------------------------------------------------
(* esp32/firmware/controller/src/main.rs: the control loop.                 *)

SensoryDataCap == 64
ConfigsCap == 32
WordsCap == 64
LedBlinkMs == 10
ElapsedMs == 10

\* get_pin!: the pin numbers the macro has an arm for.
GetPinList == {0, 2, 4, 5, 12, 13, 14, 15, 16, 17, 18, 19, 21, 22, 23, 25, 26, 27, 32, 33}

\* The GPIO numbers of the chip.
GpioPins == 0..39

\* get_pin! that has an arm for every GPIO of the chip.
get_pin_any(pin_num) == IF pin_num \in GpioPins THEN Some(pin_num) ELSE None

\* get_pin!(pin_num, peripherals.pins)
get_pin(pin_num) == IF pin_num \in GetPinList THEN Some(pin_num) ELSE None

GpioPinConfig(pin, mode, cortical_mapping) ==
    [pin |-> pin, mode |-> mode, cortical_mapping |-> cortical_mapping]

\* for gpio_config in GPIO_CONFIG { match gpio_config.mode { .. push .. } }:
\* the (pin, mapping) pairs of one mode, in order, into a Vec<_, 32>.
RECURSIVE Collect(_, _, _, _)
Collect(config, mode, i, out) ==
    IF i > Len(config) THEN out
    ELSE IF config[i].mode = mode
         THEN Collect(config, mode, i + 1,
                      Push(out, <<config[i].pin, config[i].cortical_mapping>>, ConfigsCap))
         ELSE Collect(config, mode, i + 1, out)

\* An f32 that a decimal text denotes exactly: sign, integer digits, fraction
\* digits; or an infinity or a NaN.
F32(negative, int, frac) == [kind |-> "finite", negative |-> negative, int |-> int, frac |-> frac]
F32Inf(negative) == [kind |-> "inf", negative |-> negative, int |-> <<>>, frac |-> <<>>]
F32NaN == [kind |-> "nan", negative |-> FALSE, int |-> <<>>, frac |-> <<>>]
F32One == F32(FALSE, <<1>>, <<0>>)
F32Zero == F32(FALSE, <<0>>, <<0>>)

\* x >= 0.5
AtLeastHalf(x) ==
    \/ x.kind = "inf" /\ ~x.negative
    \/ /\ x.kind = "finite" /\ ~x.negative
       /\ \/ \E i \in DOMAIN x.int : x.int[i] # 0
          \/ x.frac # <<>> /\ x.frac[1] >= 5

\* x > 0.5
GreaterThanHalf(x) ==
    \/ x.kind = "inf" /\ ~x.negative
    \/ /\ x.kind = "finite" /\ ~x.negative
       /\ \/ \E i \in DOMAIN x.int : x.int[i] # 0
          \/ x.frac # <<>> /\ x.frac[1] > 5
          \/ x.frac # <<>> /\ x.frac[1] = 5 /\ \E i \in 2..Len(x.frac) : x.frac[i] # 0

\* Step 1: the digital inputs that get_pin! knows and whose mapping parses,
\* as (neuron_id, potential), into a Vec<_, 64>.
RECURSIVE ReadDigitalInputs(_, _, _, _)
ReadDigitalInputs(configs, level, i, data) ==
    IF i > Len(configs) THEN data
    ELSE LET pin_num == configs[i][1]
             neuron_id == parse_neuron_id(configs[i][2])
             potential == IF level[pin_num] = "High" THEN F32One ELSE F32Zero
         IN IF get_pin(pin_num) # None /\ neuron_id # None
            THEN ReadDigitalInputs(configs, level, i + 1,
                                   Push(data, <<neuron_id.value, potential>>, SensoryDataCap))
            ELSE ReadDigitalInputs(configs, level, i + 1, data)

\* json.push_str(..) for each of texts[lo..hi] in turn, errors ignored (the
\* pushes of the first half, then those of the second).
RECURSIVE PushRange(_, _, _, _)
PushRange(json, texts, lo, hi) ==
    IF lo > hi THEN json
    ELSE IF lo = hi THEN PushStr(json, texts[lo], JsonCap)
    ELSE LET first == PushRange(json, texts, lo, (lo + hi) \div 2)
         IN IF Len(first) <= JsonCap
            THEN PushRange(first, texts, (lo + hi) \div 2 + 1, hi)
            ELSE first

PushStrs(json, texts) == PushRange(json, texts, 1, Len(texts))

JsonOpen == <<123, 34, 110, 112, 34, 58, 91>>                  \* {"np":[
JsonIdAndFrame ==                                              \* ],"id":"esp32","f":
    <<93, 44, 34, 105, 100, 34, 58, 34, 101, 115, 112, 51, 50, 34, 44, 34, 102, 34, 58>>
JsonClose == <<125, Newline>>                                  \* }\n
Comma == <<44>>
BracketOpen == <<91>>
BracketClose == <<93>>

\* The body of `for (i, (id, pot)) in sensory_data.iter().enumerate()`.
PotInt(pot) == IF GreaterThanHalf(pot) THEN 1 ELSE 0

PairTexts(i, sample) ==
    (IF i > 1 THEN <<Comma>> ELSE <<>>)
    \o << BracketOpen,
          u32_to_string(sample[1], IdStrCap),
          Comma,
          u32_to_string(Small(U32Limbs, PotInt(sample[2])), IdStrCap),
          BracketClose >>

\* The texts the `for` loop pushes, for the samples from the i-th on.
RECURSIVE PairsTexts(_, _)
PairsTexts(data, i) ==
    IF i > Len(data) THEN <<>>
    ELSE PairTexts(i, data[i]) \o PairsTexts(data, i + 1)

\* Step 2: the String<512> written to the UART.
SensoryJson(data, frame) ==
    PushStrs(JsonOpen,
             PairsTexts(data, 1)
             \o << JsonIdAndFrame, u64_to_string(frame, FrameStrCap), JsonClose >>)

\* char::is_alphanumeric, for the ASCII that message_str holds.
IsAlphanumeric(c) ==
    \/ IsDigit(c)
    \/ 65 <= c /\ c <= 90
    \/ 97 <= c /\ c <= 122

\* The bytes that end a word: `!c.is_alphanumeric() && c != '.' && c != '-'`.
IsSeparator(c) == ~IsAlphanumeric(c) /\ c # Dot /\ c # Minus

\* The words of the message: the maximal runs of bytes that are not
\* separators, in order, into a Vec<&str, 64>.
Words(message) ==
    LET starts == { i \in 1..Len(message) :
                      /\ ~IsSeparator(message[i])
                      /\ i = 1 \/ IsSeparator(message[i - 1]) }
        EndOf(s) == CHOOSE e \in s..Len(message) :
                      /\ \A j \in s..e : ~IsSeparator(message[j])
                      /\ e = Len(message) \/ IsSeparator(message[e + 1])
        Nth(k) == CHOOSE s \in starts : Cardinality({ t \in starts : t < s }) = k - 1
    IN [k \in 1..Min(Cardinality(starts), WordsCap) |-> SubSeq(message, Nth(k), EndOf(Nth(k)))]

WordNeuronId == <<110, 101, 117, 114, 111, 110, 95, 105, 100>>   \* neuron_id
WordId == <<105, 100>>                                           \* id
WordValue == <<118, 97, 108, 117, 101>>                          \* value
WordV == <<118>>                                                 \* v

ToLower(c) == IF 65 <= c /\ c <= 90 THEN c + 32 ELSE c
Lowered(s) == [i \in DOMAIN s |-> ToLower(s[i])]

\* str::parse::<f32>() (core::num::dec2flt) on a word, which has letters,
\* digits, '.' and '-' only: an optional '-', then inf / infinity / nan in
\* any case, or digits with at most one '.' and at least one digit.  Texts
\* with an exponent (1e3) are not among the words of this model.
parse_f32(word) ==
    LET negative == word # <<>> /\ word[1] = Minus
        body == IF negative THEN Tail(word) ELSE word
        dots == { i \in DOMAIN body : body[i] = Dot }
        dot == IF dots = {} THEN Len(body) + 1 ELSE CHOOSE i \in dots : TRUE
        int == SubSeq(body, 1, dot - 1)
        frac == SubSeq(body, dot + 1, Len(body))
        Value(s) == [i \in DOMAIN s |-> s[i] - Digit0]
    IN IF Lowered(body) \in { <<105, 110, 102>>, <<105, 110, 102, 105, 110, 105, 116, 121>> }
       THEN Some(F32Inf(negative))
       ELSE IF Lowered(body) = <<110, 97, 110>> THEN Some(F32NaN)
       ELSE IF /\ Cardinality(dots) <= 1
               /\ Len(int) + Len(frac) >= 1
               /\ \A i \in DOMAIN int : IsDigit(int[i])
               /\ \A i \in DOMAIN frac : IsDigit(frac[i])
            THEN Some(F32(negative, Value(int), Value(frac)))
            ELSE None

\* `for i in 0..words.len().saturating_sub(1)`: the value behind the last key
\* word (not in last place) whose next word parses; None if there is none.
LastParsed(words, keys, parsed) ==
    LET at == { i \in 1..(Len(words) - 1) : words[i] \in keys /\ parsed[i + 1] # None }
    IN IF at = {} THEN None
       ELSE parsed[(CHOOSE i \in at : \A j \in at : j <= i) + 1]

\* (neuron_id, value) as the word scan leaves them.
MotorCommand(message) ==
    LET words == Words(message)
    IN [neuron_id |-> LastParsed(words, {WordNeuronId, WordId},
                                 [i \in DOMAIN words |-> parse_u32(words[i])]),
        value |-> LastParsed(words, {WordValue, WordV},
                             [i \in DOMAIN words |-> parse_f32(words[i])])]

NoMotorCommand == [neuron_id |-> None, value |-> None]

\* "Apply motor command to GPIO outputs": every entry of
\* digital_output_configs whose mapping parses to nid and whose pin get_pin!
\* knows is driven, high if val > 0.5 and low otherwise.
DrivenPins(configs, nid) ==
    { configs[i][1] : i \in { j \in DOMAIN configs :
                                 /\ parse_neuron_id(configs[j][2]) = Some(nid)
                                 /\ get_pin(configs[j][1]) # None } }

\* The application that stops at the first matching entry (a `break`).
ApplyMotorCommandFirstOnly(configs, out, cmd) ==
    IF cmd.neuron_id = None \/ cmd.value = None THEN out
    ELSE LET match == { j \in DOMAIN configs :
                          parse_neuron_id(configs[j][2]) = Some(cmd.neuron_id.value) }
             first == CHOOSE j \in match : \A k \in match : j <= k
         IN IF match = {} \/ get_pin(configs[first][1]) = None THEN out
            ELSE [out EXCEPT ![configs[first][1]] =
                      IF GreaterThanHalf(cmd.value.value) THEN "High" ELSE "Low"]

ApplyMotorCommand(configs, out, cmd) ==
    IF cmd.neuron_id = None \/ cmd.value = None THEN out
    ELSE [p \in DOMAIN out |->
             IF p \in DrivenPins(configs, cmd.neuron_id.value)
             THEN (IF GreaterThanHalf(cmd.value.value) THEN "High" ELSE "Low")
             ELSE out[p]]

\* sampling_period_ms = 1000 / BURST_FREQUENCY_HZ, and the argument of the
\* FreeRtos::delay_ms that ends the iteration (None: no call).
sampling_period_ms(hz) == 1000 \div hz

ControllerDelayUnguarded(hz) ==
    Some(wrapping_sub(Small(U32Limbs, sampling_period_ms(hz)), ElapsedMs))

ControllerDelay(hz) ==
    IF sampling_period_ms(hz) > ElapsedMs
    THEN Some(wrapping_sub(Small(U32Limbs, sampling_period_ms(hz)), ElapsedMs))
    ELSE None

(* esp32/firmware/standalone/src/main.rs: the burst loop.                   *)
StandaloneBlinkMs == 50
DefaultBurstFrequency == 100
Panic == [tag |-> "Panic"]

burst_period_ms(hz) == 1000 \div hz

\* burst_period_ms - 50 in u32: the value, or on overflow a panic (overflow
\* checks on) or the wrapped value (overflow checks off).
StandaloneDelays(hz) ==
    LET period == Small(U32Limbs, burst_period_ms(hz))
    IN IF SubOverflows(period, StandaloneBlinkMs)
       THEN { Panic, Some(wrapping_sub(period, StandaloneBlinkMs)) }
       ELSE { Some(wrapping_sub(period, StandaloneBlinkMs)) }

\* The pins as they are before anything drove or read them.
NeverDriven == [p \in GpioPins |-> "None"]
AllLow == [p \in GpioPins |-> "Low"]
AllHigh == [p \in GpioPins |-> "High"]

\* The ESP32 state of a behaviour that follows another firmware.
ControlIdle ==
    /\ BURST_FREQUENCY_HZ = DefaultBurstFrequency
    /\ GPIO_CONFIG = <<>>
    /\ uart = FALSE
    /\ frame_number = Zero(U64Limbs)
    /\ iterations = 0
    /\ gpio_in = AllLow
    /\ gpio_out = NeverDriven
    /\ sensory_data = <<>>
    /\ uart_tx = None
    /\ motor = NoMotorCommand
    /\ delay = None


-----------------------------------------------------------------------------
(* Inputs: the byte streams the host sends.                                *)

MaxSegments == 2

\* n copies of byte b.
Fill(n, b) == [i \in 1..n |-> b]

\* i-th coordinate pair of the patterned list used for long NeuronFiring frames.
PatternPair(i) == <<i % 5, (i * 3) % 7>>

RECURSIVE Flatten(_)
Flatten(pairs) ==
    IF pairs = <<>> THEN <<>>
    ELSE <<Head(pairs)[1], Head(pairs)[2]>> \o Flatten(Tail(pairs))

\* [cmd_id][payload_len][payload]
Frame(cmd_id, payload) == <<cmd_id, Len(payload)>> \o payload

\* [0x01][1 + 2*count][count][x1, y1, ...]
NeuronFiringFrame(coords) == Frame(IdNeuronFiring, <<Len(coords)>> \o Flatten(coords))

\* BLE characteristic format: [0x01][count][x1, y1, ...]
BlePacket(coords) == <<IdNeuronFiring, Len(coords)>> \o Flatten(coords)

CoordValues == {0, 4, 255}

CoordLists ==
    { <<>> } \cup { <<<<x, y>>>> : x \in CoordValues, y \in CoordValues }
             \cup { [i \in 1..n |-> PatternPair(i)] : n \in 2..CoordinatesCap }

UsbPool ==
    { Frame(IdGetCapabilities, <<>>),
      Frame(IdSetGpio, <<3, 1>>),
      Frame(IdSetGpio, <<0>>),
      Frame(IdNeuronFiring, <<1, 4, 2>>),
      Frame(IdNeuronFiring, <<2>>),
      Frame(IdSetPwm, <<7, 128>>),
      Frame(6, <<9>>),
      Frame(IdGetCapabilities, <<1, 2>>) }

NineGetCapabilities ==
    Frame(IdGetCapabilities, <<>>) \o Frame(IdGetCapabilities, <<>>)
    \o Frame(IdGetCapabilities, <<>>) \o Frame(IdGetCapabilities, <<>>)
    \o Frame(IdGetCapabilities, <<>>) \o Frame(IdGetCapabilities, <<>>)
    \o Frame(IdGetCapabilities, <<>>) \o Frame(IdGetCapabilities, <<>>)
    \o Frame(IdSetGpio, <<2, 1>>)

UsbScenarios ==
    { NeuronFiringFrame(c) : c \in CoordLists }
    \cup
    { Frame(IdSetGpio, <<3, 0>>),
      Frame(IdSetGpio, <<3, 7>>),
      Frame(IdSetGpio, <<>>),
      Frame(IdSetGpio, <<3, 1, 1>>) \o Frame(IdSetGpio, <<4, 1>>),
      Frame(IdSetPwm, <<7>>) \o Frame(IdSetPwm, <<0, 255>>),
      Frame(IdSetLedMatrix, [i \in 1..25 |-> i * 10]) \o Frame(IdGetCapabilities, <<>>),
      Frame(IdSetLedMatrix, Fill(24, 9)) \o Frame(IdGetCapabilities, <<>>),
      Frame(IdSetLedMatrix, Fill(26, 9)) \o Frame(IdSetGpio, <<1, 1>>),
      Frame(IdNeuronFiring, <<>>) \o Frame(IdGetCapabilities, <<>>),
      Frame(IdNeuronFiring, <<1, 4>>) \o Frame(IdGetCapabilities, <<>>),
      Frame(IdNeuronFiring, <<3, 1, 2>>),
      Frame(IdNeuronFiring, <<255, 1, 2>>),
      Frame(IdNeuronFiring, <<26>> \o Fill(52, 1)),
      Frame(0, <<>>) \o Frame(255, <<5, 0>>) \o Frame(IdSetPwm, <<1, 2>>),
      Fill(18, 0) \o Fill(1, IdGetCapabilities) \o Fill(1, 0),
      Frame(IdGetCapabilities, Fill(254, 0)) \o Frame(IdSetGpio, <<1, 1>>),
      Frame(6, Fill(255, 0)) \o Frame(IdGetCapabilities, <<>>),
      Frame(6, Fill(200, 0)) \o Frame(6, Fill(60, 0)) \o Frame(IdSetGpio, <<1, 1>>),
      <<IdGetCapabilities>> }

BlePool ==
    { BlePacket(<<>>),
      BlePacket(<<<<5, 6>>>>),
      BlePacket(<<<<1, 2>>, <<3, 4>>>>),
      <<IdSetGpio, 1, 0, 0>> }

BleScenarios ==
    { BlePacket([i \in 1..25 |-> <<i - 1, i>>]),
      <<IdNeuronFiring, 26>> \o Fill(52, 1),
      Fill(300, IdSetGpio) \o BlePacket(<<<<5, 6>>>>),
      BlePacket([i \in 1..25 |-> <<i - 1, i>>]) \o Fill(205, 0) }

EspPool ==
    { <<118, 58, 49, Newline>>,
      <<105, 100, 200, 55>>,
      <<Newline>> }

EspScenarios ==
    { Fill(600, 65) \o <<Newline>>,
      Fill(511, 65) \o <<Newline, 66, Newline>> }

Pool(t) ==
    CASE t = "usb" -> UsbPool
      [] t = "ble" -> BlePool
      [] OTHER -> EspPool

RECURSIVE Concats(_, _)
Concats(t, n) ==
    IF n = 0 THEN { <<>> }
    ELSE LET shorter == Concats(t, n - 1)
         IN shorter \cup { s \o p : s \in shorter, p \in Pool(t) }

Streams(t) ==
    (Concats(t, MaxSegments) \ { <<>> })
    \cup (CASE t = "usb" -> UsbScenarios \cup { NineGetCapabilities }
            [] t = "ble" -> BleScenarios
            [] OTHER -> EspScenarios)

\* Sizes of the next chunk: a few bytes, one 64-byte USB packet, or all that
\* is pending (at most `most` bytes).
ChunkSizes(len, most) == { n \in {1, 2, 3, 64, Min(len, most)} : 1 <= n /\ n <= len }

-----------------------------------------------------------------------------
(* The record kept of the most recent process_received_data call (of the    *)
(* read, for the ESP32): the buffer before it, the bytes handed in, the     *)
(* buffer after the push loop, the packets parse_packets went through, the  *)
(* command queue before and after, and how many Commands the caller had     *)
(* been given by then.                                                      *)
Call(before, data, buffered, parsed, queue_before, queue_after, drained) ==
    [before |-> before, data |-> data, buffered |-> buffered, parsed |-> parsed,
     queue_before |-> queue_before, queue_after |-> queue_after, drained |-> drained]

NoCall == Call(<<>>, <<>>, <<>>, <<>>, <<>>, <<>>, 0)

Init ==
    /\ transport \in {"usb", "ble", "esp32"}
    /\ input \in Streams(transport)
    /\ fed = <<>>
    /\ rx_buffer = <<>>
    /\ commands = <<>>
    /\ last_call = NoCall
    /\ result = None
    /\ delivered = <<>>
    /\ receive_buffer = <<>>
    /\ rx_accumulator = <<>>
    /\ message_str = <<>>
    /\ last_op = "new"
    /\ BLE_RX_BUFFER = None
    /\ BLE_TX_BUFFER = None
    /\ display_buffer = ClearedDisplay
    /\ LinkIdle
    /\ ControlIdle

\* FeagiProtocol::process_received_data(&input[..n])
ProcessReceivedData(n) ==
    /\ transport = "usb"
    /\ LET data == SubSeq(input, 1, n)
           r == process_received_data(rx_buffer, commands, data)
       IN /\ rx_buffer' = r.rx_buffer
          /\ commands' = r.commands
          /\ last_call' = Call(rx_buffer, data, PushAll(rx_buffer, data), r.parsed,
                               commands, r.commands, Len(delivered))
          /\ fed' = fed \o data
          /\ input' = SubSeq(input, n + 1, Len(input))
    /\ last_op' = "process_received_data"
    /\ UNCHANGED <<link_vars, control_vars, transport, result, delivered, receive_buffer, rx_accumulator,
                   message_str, loop_vars>>

\* receive_command that pops the newest Command (Vec::pop) instead of remove(0).
ReceiveCommandNewestFirst ==
    /\ transport = "usb"
    /\ IF commands = <<>>
       THEN /\ result' = None
            /\ UNCHANGED <<commands, delivered>>
       ELSE /\ result' = commands[Len(commands)]
            /\ commands' = SubSeq(commands, 1, Len(commands) - 1)
            /\ delivered' = Append(delivered, commands[Len(commands)])
    /\ last_op' = "receive_command"
    /\ UNCHANGED <<link_vars, control_vars, transport, input, fed, rx_buffer, last_call, receive_buffer,
                   rx_accumulator, message_str, loop_vars>>

\* FeagiProtocol::receive_command
ReceiveCommand ==
    /\ transport = "usb"
    /\ IF commands = <<>>
       THEN /\ result' = None
            /\ UNCHANGED <<commands, delivered>>
       ELSE /\ result' = Head(commands)
            /\ commands' = RemoveFront(commands, 1)
            /\ delivered' = Append(delivered, Head(commands))
    /\ last_op' = "receive_command"
    /\ UNCHANGED <<link_vars, control_vars, transport, input, fed, rx_buffer, last_call, receive_buffer,
                   rx_accumulator, message_str, loop_vars>>

\* BluetoothService::process_received_data(&input[..n])
BleProcessReceivedData(n) ==
    /\ transport = "ble"
    /\ LET data == SubSeq(input, 1, n)
       IN /\ receive_buffer' = BlePushAll(receive_buffer, data)
          /\ last_call' = Call(receive_buffer, data, BlePushAll(receive_buffer, data),
                               <<>>, <<>>, <<>>, Len(delivered))
          /\ fed' = fed \o data
          /\ input' = SubSeq(input, n + 1, Len(input))
    /\ last_op' = "process_received_data"
    /\ UNCHANGED <<link_vars, control_vars, transport, rx_buffer, commands, result, delivered, rx_accumulator,
                   message_str, loop_vars>>

\* BluetoothService::receive_command
BleReceiveCommand ==
    /\ transport = "ble"
    /\ LET r == parse_neuron_firing_packet(receive_buffer)
           cmd == IF r.coords = None THEN None ELSE NeuronFiring(r.coords.coordinates)
       IN /\ receive_buffer' = r.receive_buffer
          /\ result' = cmd
          /\ delivered' = IF cmd = None THEN delivered ELSE Append(delivered, cmd)
    /\ last_op' = "receive_command"
    /\ UNCHANGED <<link_vars, control_vars, transport, input, fed, rx_buffer, commands, last_call,
                   rx_accumulator, message_str, loop_vars>>

\* BluetoothService::receive_neuron_data
BleReceiveNeuronData ==
    /\ transport = "ble"
    /\ LET r == parse_neuron_firing_packet(receive_buffer)
       IN /\ receive_buffer' = r.receive_buffer
          /\ result' = r.coords
          /\ delivered' = IF r.coords = None THEN delivered
                          ELSE Append(delivered, NeuronFiring(r.coords.coordinates))
    /\ last_op' = "receive_neuron_data"
    /\ UNCHANGED <<link_vars, control_vars, transport, input, fed, rx_buffer, commands, last_call,
                   rx_accumulator, message_str, loop_vars>>

\* ESP32 main loop, step 3: u.read(&mut rx_buffer, 10) returned Ok(n), n > 0.
Esp32Receive(n) ==
    /\ transport = "esp32"
    /\ LET data == SubSeq(input, 1, n)
           acc == Accumulate(rx_accumulator, data)
           newline_idx == NewlinePosition(acc)
       IN /\ IF newline_idx > 0
             THEN /\ message_str' = ExtractMessage(SubSeq(acc, 1, newline_idx - 1))
                  /\ rx_accumulator' = <<>>
             ELSE /\ rx_accumulator' = acc
                  /\ UNCHANGED message_str
          /\ last_call' = Call(rx_accumulator, data, acc, <<>>, <<>>, <<>>, 0)
          /\ fed' = fed \o data
          /\ input' = SubSeq(input, n + 1, Len(input))
    /\ last_op' = "read"
    /\ UNCHANGED <<link_vars, control_vars, transport, rx_buffer, commands, result, delivered, receive_buffer,
                   loop_vars>>

Next ==
    \/ \E n \in ChunkSizes(Len(input), Len(input)) : ProcessReceivedData(n)
    \/ ReceiveCommand
    \/ \E n \in ChunkSizes(Len(input), Len(input)) : BleProcessReceivedData(n)
    \/ BleReceiveCommand
    \/ BleReceiveNeuronData
    \/ \E n \in ChunkSizes(Len(input), UartReadCap) : Esp32Receive(n)

Spec == Init /\ [][Next]_vars

-----------------------------------------------------------------------------
(* The dispatch of the micro:bit BLE main loop, applied to any Command.     *)
(* In DispatchSpec `delivered` holds the Commands dispatched so far and     *)
(* `result` the one dispatched last.                                        *)

MaxDispatched == 3

DispatchCoordinates ==
    { <<>>,
      <<<<0, 0>>>>,
      <<<<4, 4>>>>,
      <<<<1, 2>>, <<3, 4>>>>,
      <<<<5, 0>>>>,
      <<<<2, 255>>, <<2, 2>>, <<2, 2>>>> }

DispatchCommands ==
    { SetLedMatrix(Fill(25, 255)),
      SetLedMatrix([i \in 1..25 |-> i * 10]),
      SetLedMatrix(Fill(25, 0)),
      SetGpio(3, TRUE),
      SetPwm(7, 128),
      GetCapabilities }
    \cup { NeuronFiring(c) : c \in DispatchCoordinates }

DispatchInit ==
    /\ transport = "ble"
    /\ input = <<>>
    /\ fed = <<>>
    /\ rx_buffer = <<>>
    /\ commands = <<>>
    /\ last_call = NoCall
    /\ result = None
    /\ delivered = <<>>
    /\ receive_buffer = <<>>
    /\ rx_accumulator = <<>>
    /\ message_str = <<>>
    /\ last_op = "new"
    /\ BLE_RX_BUFFER = None
    /\ BLE_TX_BUFFER = None
    /\ display_buffer = ClearedDisplay
    /\ LinkIdle
    /\ ControlIdle

\* `if let Some(cmd) = bluetooth.receive_command() { match cmd { .. } }`
DispatchCommand(cmd) ==
    /\ Len(delivered) < MaxDispatched
    /\ LET r == Dispatch(cmd, display_buffer, BLE_TX_BUFFER)
       IN /\ display_buffer' = r.display_buffer
          /\ BLE_TX_BUFFER' = r.BLE_TX_BUFFER
    /\ result' = cmd
    /\ delivered' = Append(delivered, cmd)
    /\ last_op' = "dispatch"
    /\ UNCHANGED <<link_vars, control_vars, transport, input, fed, rx_buffer, commands, last_call,
                   receive_buffer, rx_accumulator, message_str, BLE_RX_BUFFER>>

\* ble_task: `if let Some(data) = BLE_TX_BUFFER.take() { send_notify(&data) }`
TakeTx ==
    /\ BLE_TX_BUFFER # None
    /\ BLE_TX_BUFFER' = None
    /\ last_op' = "ble_task"
    /\ UNCHANGED <<link_vars, control_vars, transport, input, fed, rx_buffer, commands, last_call, result,
                   delivered, receive_buffer, rx_accumulator, message_str,
                   BLE_RX_BUFFER, display_buffer>>

DispatchNext ==
    \/ \E cmd \in DispatchCommands : DispatchCommand(cmd)
    \/ TakeTx

DispatchSpec == DispatchInit /\ [][DispatchNext]_vars

-----------------------------------------------------------------------------
(* micro:bit main.rs, transport-ble: the main loop and ble_task, which hand *)
(* chunks to each other through BLE_RX_BUFFER and BLE_TX_BUFFER.  The       *)
(* embassy executor is cooperative: each task runs from one await that      *)
(* suspends it to the next, so an iteration of the main loop (up to         *)
(* display.display(..).await) is one step, and so is the part of a ble_task *)
(* iteration from the GATT event to Timer::after(..).await.                 *)

\* Option::take that leaves the value in the slot.
TakeKeeping(slot) == [value |-> slot, slot |-> slot]

\* Option::take: the value returned and the slot as it is left.
Take(slot) == [value |-> slot, slot |-> None]

\* BleStack::process_events, GattEvent::Write on the RX characteristic: the
\* bytes that fit in a Vec<u8, 256> (push, break at the first Err), stored
\* in BLE_RX_BUFFER over whatever it held.
GattWrite(data) ==
    Some(IF PushFails(data, HandoffCap + 1) THEN SubSeq(data, 1, HandoffCap) ELSE data)

\* The bytes the host writes to the RX characteristic.
LoopStreams ==
    (Concats("ble", MaxSegments) \ { <<>> })
    \cup { Frame(IdGetCapabilities, <<>>),
           Frame(IdGetCapabilities, <<>>) \o BlePacket(<<<<5, 6>>>>) }

LoopInit ==
    /\ transport = "ble"
    /\ input \in LoopStreams
    /\ fed = <<>>
    /\ rx_buffer = <<>>
    /\ commands = <<>>
    /\ last_call = NoCall
    /\ result = None
    /\ delivered = <<>>
    /\ receive_buffer = <<>>
    /\ rx_accumulator = <<>>
    /\ message_str = <<>>
    /\ last_op = "new"
    /\ BLE_RX_BUFFER = None
    /\ BLE_TX_BUFFER = None
    /\ display_buffer = ClearedDisplay
    /\ LinkIdle
    /\ ControlIdle

\* ble_task that does not store back what receive_data took.
BleTaskBodyDropping(n) ==
    /\ LET data == SubSeq(input, 1, n)
           written == IF n > 0 THEN GattWrite(data) ELSE BLE_RX_BUFFER
           received == Take(written)
           sent == Take(BLE_TX_BUFFER)
       IN /\ BLE_RX_BUFFER' = received.slot
          /\ BLE_TX_BUFFER' = sent.slot
    /\ input' = SubSeq(input, n + 1, Len(input))
    /\ last_op' = "ble_task"
    /\ UNCHANGED <<transport, fed, rx_buffer, commands, last_call, result, delivered,
                   receive_buffer, rx_accumulator, message_str, display_buffer>>

\* One iteration of ble_task.  process_events has handled an event: a write
\* of the next n bytes to the RX characteristic, or (n = 0) another event.
\* Then receive_data takes BLE_RX_BUFFER, ble_task stores what it got back,
\* and BLE_TX_BUFFER is taken and handed to send_notify.
BleTaskBody(n) ==
    /\ LET data == SubSeq(input, 1, n)
           written == IF n > 0 THEN GattWrite(data) ELSE BLE_RX_BUFFER
           received == Take(written)
           stored == IF received.value # None
                     THEN Some(received.value.value)
                     ELSE received.slot
           sent == Take(BLE_TX_BUFFER)
       IN /\ BLE_RX_BUFFER' = stored
          /\ BLE_TX_BUFFER' = sent.slot
    /\ input' = SubSeq(input, n + 1, Len(input))
    /\ last_op' = "ble_task"
    /\ UNCHANGED <<transport, fed, rx_buffer, commands, last_call, result, delivered,
                   receive_buffer, rx_accumulator, message_str, display_buffer>>

BleTaskIteration(n) == BleTaskBody(n) /\ UNCHANGED <<control_vars, link_vars>>

\* One iteration of the main loop: take BLE_RX_BUFFER and process it,
\* receive_command and its dispatch, receive_neuron_data and the display
\* update.  `result` is what receive_neuron_data returned.
MainLoopIteration ==
    LET taken == Take(BLE_RX_BUFFER)
        has_data == taken.value # None
        data == IF has_data THEN taken.value.value ELSE <<>>
        buffered == IF has_data THEN BlePushAll(receive_buffer, data) ELSE receive_buffer
        first == parse_neuron_firing_packet(buffered)
        cmd == IF first.coords = None THEN None
               ELSE NeuronFiring(first.coords.coordinates)
        dispatched == IF cmd = None
                      THEN [display_buffer |-> display_buffer,
                            BLE_TX_BUFFER |-> BLE_TX_BUFFER]
                      ELSE Dispatch(cmd, display_buffer, BLE_TX_BUFFER)
        second == parse_neuron_firing_packet(first.receive_buffer)
    IN /\ BLE_RX_BUFFER' = taken.slot
       /\ fed' = fed \o data
       /\ last_call' = IF has_data
                       THEN Call(receive_buffer, data, buffered, <<>>, <<>>, <<>>,
                                 Len(delivered))
                       ELSE last_call
       /\ receive_buffer' = second.receive_buffer
       /\ result' = second.coords
       /\ delivered' = delivered
              \o (IF cmd = None THEN <<>> ELSE <<cmd>>)
              \o (IF second.coords = None THEN <<>>
                  ELSE <<NeuronFiring(second.coords.coordinates)>>)
       /\ display_buffer' = IF second.coords = None
                            THEN dispatched.display_buffer
                            ELSE update_from_neurons(dispatched.display_buffer,
                                                     second.coords.coordinates)
       /\ BLE_TX_BUFFER' = dispatched.BLE_TX_BUFFER
       /\ last_op' = "main_loop"
       /\ UNCHANGED <<link_vars, control_vars, transport, input, rx_buffer, commands, rx_accumulator,
                      message_str>>

LoopNext ==
    \/ \E n \in {0} \cup ChunkSizes(Len(input), Len(input)) : BleTaskIteration(n)
    \/ MainLoopIteration

LoopSpec == LoopInit /\ [][LoopNext]_vars

-----------------------------------------------------------------------------
(* The ESP32 control loops.  A behaviour of ControlSpec follows one build   *)
(* of the controller firmware (transport "esp32") or of the standalone      *)
(* firmware (transport "esp32-standalone"); one step is one iteration of    *)
(* its `loop`.                                                              *)

MaxIterations == 2
LedPin == 2

Text7 == <<55>>                                   \* 7
TextIpu12 == <<105, 112, 117, 58, 49, 50>>        \* ipu:12
Text9 == <<57>>                                   \* 9
TextX == <<120>>                                  \* x
Text3 == <<51>>                                   \* 3
TextOpu3 == <<111, 112, 117, 58, 51>>             \* opu:3
Text8 == <<56>>                                   \* 8
TextU32Max == <<52, 50, 57, 52, 57, 54, 55, 50, 57, 53>>   \* 4294967295

\* A gpio section with inputs and outputs that resolve, that do not resolve,
\* and on pins get_pin! has no arm for (6 and 7).
TypicalGpio ==
    << GpioPinConfig(4, "DigitalInput", Text7),
       GpioPinConfig(13, "DigitalOutput", Text3),
       GpioPinConfig(5, "DigitalInput", TextIpu12),
       GpioPinConfig(6, "DigitalInput", Text9),
       GpioPinConfig(14, "DigitalOutput", TextOpu3),
       GpioPinConfig(12, "DigitalInput", TextX),
       GpioPinConfig(15, "DigitalOutput", Text8),
       GpioPinConfig(7, "DigitalOutput", Text3),
       GpioPinConfig(32, "AnalogInput", Text7),
       GpioPinConfig(25, "PwmOutput", Text3) >>

\* Thirty-two digital inputs (all that digital_input_configs takes) mapped to
\* ten-digit neuron ids, and one output.
CrowdedGpio ==
    [i \in 1..32 |-> GpioPinConfig(IF i % 2 = 1 THEN 4 ELSE 5, "DigitalInput", TextU32Max)]
    \o << GpioPinConfig(13, "DigitalOutput", Text3) >>

GpioConfigs == { <<>>, TypicalGpio, CrowdedGpio }

BurstFrequencies == {1, 20, 21, 90, 91, DefaultBurstFrequency, 1001}

\* The levels the input pins may have when an iteration reads them.
Pin4High == [p \in GpioPins |-> IF p = 4 THEN "High" ELSE "Low"]
Levels == { AllLow, AllHigh, Pin4High }

\* 9999999999999999 and u64::MAX - 1, as limbs.
SixteenNines == <<65535, 28608, 34546, 35>>
U64MaxLessOne == <<LimbMax - 1, LimbMax, LimbMax, LimbMax>>

\* frame_number is 0 when the loop is entered (last_op = "new").  A behaviour
\* may also take the loop up later (last_op = "running"), after 10^16 - 1 or
\* 2^64 - 2 iterations, with the counter where wrapping_add(1) has brought
\* it by then: there its seventeenth digit and its wrap are one step away.
LaterFrames == { SixteenNines, U64MaxLessOne }

ControlStreams ==
    { <<123, 34, 105, 100, 34, 58, 51, 44, 34, 118, 34, 58, 49, 125, 10>>,
      <<105, 100, 32, 51, 32, 118, 32, 48, 46, 53, 10>>,
      <<105, 100, 32, 56, 32, 118, 97, 108, 117, 101, 32, 48, 46, 55, 10, 105, 100, 32, 51, 32, 118, 32, 48, 10>>,
      <<123, 34, 109, 99, 34, 58, 91, 91, 51, 44, 49, 93, 93, 125, 10>>,
      <<105, 100, 32, 57, 32, 118, 32, 49, 10, 105, 100, 32, 51, 32, 118, 32, 49>> }

digital_input_configs == Collect(GPIO_CONFIG, "DigitalInput", 1, <<>>)
digital_output_configs == Collect(GPIO_CONFIG, "DigitalOutput", 1, <<>>)

\* What a behaviour of the controller starts from: the build (gpio section,
\* burst frequency), whether the UART came up, the frame counter and the
\* stream the host will send.
Start(gpio, hz, has_uart, frame, running, stream) ==
    [gpio |-> gpio, hz |-> hz, uart |-> has_uart, frame |-> frame,
     last_op |-> IF running THEN "running" ELSE "new", stream |-> stream]

AnyStream == CHOOSE stream \in ControlStreams : Len(stream) > 5

ControllerStarts ==
    { Start(TypicalGpio, DefaultBurstFrequency, TRUE, Zero(U64Limbs), FALSE, stream) :
          stream \in ControlStreams }
    \cup { Start(TypicalGpio, DefaultBurstFrequency, TRUE, frame, TRUE, AnyStream) :
               frame \in LaterFrames }
    \cup { Start(TypicalGpio, hz, TRUE, Zero(U64Limbs), FALSE, AnyStream) :
               hz \in BurstFrequencies }
    \cup { Start(CrowdedGpio, DefaultBurstFrequency, TRUE, Zero(U64Limbs), FALSE, AnyStream) }
    \cup { Start(CrowdedGpio, DefaultBurstFrequency, TRUE, frame, TRUE, AnyStream) :
               frame \in LaterFrames }
    \cup { Start(<<>>, DefaultBurstFrequency, TRUE, frame, TRUE, AnyStream) :
               frame \in LaterFrames }
    \cup { Start(<<>>, DefaultBurstFrequency, TRUE, Zero(U64Limbs), FALSE, AnyStream),
           Start(TypicalGpio, DefaultBurstFrequency, FALSE, Zero(U64Limbs), FALSE, AnyStream) }

ControlInit ==
    /\ transport \in {"esp32", "esp32-standalone"}
    /\ IF transport = "esp32"
       THEN \E start \in ControllerStarts :
                /\ BURST_FREQUENCY_HZ = start.hz
                /\ GPIO_CONFIG = start.gpio
                /\ input = start.stream
                /\ uart = start.uart
                /\ frame_number = start.frame
                /\ last_op = start.last_op
       ELSE /\ BURST_FREQUENCY_HZ \in BurstFrequencies
            /\ GPIO_CONFIG = <<>>
            /\ input = <<>>
            /\ uart = FALSE
            /\ frame_number = Zero(U64Limbs)
            /\ last_op = "new"
    /\ fed = <<>>
    /\ rx_buffer = <<>>
    /\ commands = <<>>
    /\ last_call = NoCall
    /\ result = None
    /\ delivered = <<>>
    /\ receive_buffer = <<>>
    /\ rx_accumulator = <<>>
    /\ message_str = <<>>
    /\ BLE_RX_BUFFER = None
    /\ BLE_TX_BUFFER = None
    /\ display_buffer = ClearedDisplay
    /\ LinkIdle
    /\ iterations = 0
    /\ gpio_in = AllLow
    /\ gpio_out = NeverDriven
    /\ sensory_data = <<>>
    /\ uart_tx = None
    /\ motor = NoMotorCommand
    /\ delay = None

\* led.set_high(); FreeRtos::delay_ms(..); led.set_low()
Blink(out) == [out EXCEPT ![LedPin] = "Low"]

\* One iteration of the controller's loop.  The pins read `level`; u.read
\* returned Ok(n), the next n bytes of the host's stream (n = 0: the 10 ms
\* timeout passed with nothing to read).
ControlLoopIteration(level, n) ==
    /\ transport = "esp32"
    /\ iterations < MaxIterations
    /\ uart \/ n = 0
    /\ LET data == ReadDigitalInputs(digital_input_configs, level, 1, <<>>)
           read == SubSeq(input, 1, n)
           acc == Accumulate(rx_accumulator, read)
           newline_idx == NewlinePosition(acc)
           extracts == n > 0 /\ newline_idx > 0
           message == ExtractMessage(SubSeq(acc, 1, newline_idx - 1))
           cmd == IF extracts THEN MotorCommand(message) ELSE NoMotorCommand
       IN /\ gpio_in' = level
          /\ sensory_data' = data
          /\ uart_tx' = IF data # <<>> /\ uart
                        THEN Some(SensoryJson(data, frame_number))
                        ELSE None
          /\ rx_accumulator' = IF n = 0 THEN rx_accumulator
                               ELSE IF extracts THEN <<>> ELSE acc
          /\ message_str' = IF extracts THEN message ELSE message_str
          /\ last_call' = IF n = 0 THEN last_call
                          ELSE Call(rx_accumulator, read, acc, <<>>, <<>>, <<>>, 0)
          /\ fed' = fed \o read
          /\ input' = SubSeq(input, n + 1, Len(input))
          /\ motor' = cmd
          /\ gpio_out' = ApplyMotorCommand(digital_output_configs, Blink(gpio_out), cmd)
    /\ frame_number' = wrapping_add(frame_number, 1)
    /\ delay' = ControllerDelay(BURST_FREQUENCY_HZ)
    /\ iterations' = iterations + 1
    /\ last_op' = "iteration"
    /\ UNCHANGED <<transport, rx_buffer, commands, result, delivered, receive_buffer,
                   loop_vars, link_vars, BURST_FREQUENCY_HZ, GPIO_CONFIG, uart>>

\* One iteration of the standalone firmware's loop, up to its delay_ms: the
\* subtraction either gives the delay or, on overflow, panics or wraps.
StandaloneIteration ==
    /\ transport = "esp32-standalone"
    /\ iterations < MaxIterations
    /\ delay # Panic
    /\ gpio_out' = Blink(gpio_out)
    /\ delay' \in StandaloneDelays(BURST_FREQUENCY_HZ)
    /\ iterations' = iterations + 1
    /\ last_op' = "iteration"
    /\ UNCHANGED <<transport, input, fed, rx_buffer, commands, last_call, result,
                   delivered, receive_buffer, rx_accumulator, message_str, loop_vars, link_vars,
                   BURST_FREQUENCY_HZ, GPIO_CONFIG, uart, frame_number, gpio_in,
                   sensory_data, uart_tx, motor>>

\* What u.read may return: nothing, five bytes, or all that is pending (at
\* most the 512 bytes of its buffer).
Reads(len) == {0} \cup { n \in {5, Min(len, UartReadCap)} : 1 <= n /\ n <= len }

ControlNext ==
    \/ \E level \in Levels :
           \E n \in Reads(Len(input)) : ControlLoopIteration(level, n)
    \/ StandaloneIteration

ControlSpec == ControlInit /\ [][ControlNext]_vars

-----------------------------------------------------------------------------
(* parse_neuron_id as a function of its argument.  A behaviour of ParseSpec *)
(* is one call: `input` is the mapping string, `result` what is returned.   *)

MaxMappingLen == 3

\* 0 7 + : a
MappingAlphabet == {Digit0, 55, Plus, Colon, 97}

\* ipu:4294967295, 4294967296, x:4294967296, 00000000007, -1, ipu:12:, a::7:07
LongMappings ==
    { TextU32Max,
      <<105, 112, 117, 58>> \o TextU32Max,
      <<52, 50, 57, 52, 57, 54, 55, 50, 57, 54>>,
      <<120, 58, 52, 50, 57, 52, 57, 54, 55, 50, 57, 54>>,
      <<48, 48, 48, 48, 48, 48, 48, 48, 48, 48, 55>>,
      <<Minus, 49>>,
      <<105, 112, 117, 58, 49, 50, 58>>,
      <<97, 58, 58, 55, 58, 48, 55>> }

Mappings ==
    UNION { [1..k -> MappingAlphabet] : k \in 0..MaxMappingLen } \cup LongMappings

ParseInit ==
    /\ transport = "esp32"
    /\ input \in Mappings
    /\ fed = <<>>
    /\ rx_buffer = <<>>
    /\ commands = <<>>
    /\ last_call = NoCall
    /\ result = None
    /\ delivered = <<>>
    /\ receive_buffer = <<>>
    /\ rx_accumulator = <<>>
    /\ message_str = <<>>
    /\ last_op = "new"
    /\ BLE_RX_BUFFER = None
    /\ BLE_TX_BUFFER = None
    /\ display_buffer = ClearedDisplay
    /\ LinkIdle
    /\ ControlIdle

\* let r = parse_neuron_id(mapping)
ParseNeuronId ==
    /\ last_op = "new"
    /\ result' = parse_neuron_id(input)
    /\ last_op' = "parse_neuron_id"
    /\ UNCHANGED <<transport, input, fed, rx_buffer, commands, last_call, delivered,
                   receive_buffer, rx_accumulator, message_str, loop_vars, control_vars, link_vars>>

ParseNext == ParseNeuronId

ParseSpec == ParseInit /\ [][ParseNext]_vars

-----------------------------------------------------------------------------
(* The loops and what they wait for.  A behaviour of AwaitSpec follows one  *)
(* loop: the ESP32 controller's (transport "esp32"), the micro:bit USB main *)
(* loop ("usb", with a host that has configured the device) or the          *)
(* micro:bit ble_task ("ble", with a central that is connected, and the     *)
(* main loop beside it).  `input` is what the host has yet to send and      *)
(* `iterations` counts the completed iterations of the loop followed.       *)

UsbPacketCap == 64

build_vars == <<BURST_FREQUENCY_HZ, GPIO_CONFIG, uart, frame_number, gpio_in, gpio_out,
                sensory_data, uart_tx, motor, delay>>

\* What the host may send: nothing, or one of the streams of the receivers.
AwaitStreams(t) ==
    { <<>> } \cup (IF t = "usb" THEN Streams("usb") ELSE LoopStreams \cup BleScenarios)

\* The outputs of TypicalGpio: a controller build that reads no pin and so
\* sends no packet.
OutputsGpio == SelectSeq(TypicalGpio, LAMBDA c : c.mode = "DigitalOutput")

AwaitInit ==
    \/ /\ transport = "esp32"
       /\ ControlInit
       /\ GPIO_CONFIG = <<>>
    \/ /\ transport = "esp32"
       /\ input \in ControlStreams
       /\ fed = <<>>
       /\ rx_buffer = <<>>
       /\ commands = <<>>
       /\ last_call = NoCall
       /\ result = None
       /\ delivered = <<>>
       /\ receive_buffer = <<>>
       /\ rx_accumulator = <<>>
       /\ message_str = <<>>
       /\ last_op = "new"
       /\ BLE_RX_BUFFER = None
       /\ BLE_TX_BUFFER = None
       /\ display_buffer = ClearedDisplay
       /\ LinkIdle
       /\ BURST_FREQUENCY_HZ = DefaultBurstFrequency
       /\ GPIO_CONFIG = OutputsGpio
       /\ uart = TRUE
       /\ frame_number = Zero(U64Limbs)
       /\ iterations = 0
       /\ gpio_in = AllLow
       /\ gpio_out = NeverDriven
       /\ sensory_data = <<>>
       /\ uart_tx = None
       /\ motor = NoMotorCommand
       /\ delay = None
    \/ /\ transport \in {"usb", "ble"}
       /\ input \in AwaitStreams(transport)
       /\ fed = <<>>
       /\ rx_buffer = <<>>
       /\ commands = <<>>
       /\ last_call = NoCall
       /\ result = None
       /\ delivered = <<>>
       /\ receive_buffer = <<>>
       /\ rx_accumulator = <<>>
       /\ message_str = <<>>
       /\ last_op = "new"
       /\ BLE_RX_BUFFER = None
       /\ BLE_TX_BUFFER = None
       /\ display_buffer = ClearedDisplay
       /\ LinkIdle
       /\ ControlIdle

\* One iteration of the USB main loop.  cdc_instance.read_packet(&mut buf)
\* .await has no timeout: it returns when the host has sent a packet, the
\* next n bytes of `input`, or (n = 0) a zero-length packet or when the host
\* has gone away (Err).  Then process_received_data, if n > 0, and
\* `while let Some(cmd) = protocol.receive_command()`, whose arms do nothing.
UsbMainLoopIteration(n) ==
    /\ transport = "usb"
    /\ iterations < MaxIterations
    /\ LET data == SubSeq(input, 1, n)
           r == process_received_data(rx_buffer, commands, data)
       IN /\ rx_buffer' = r.rx_buffer
          /\ commands' = <<>>
          /\ delivered' = delivered \o r.commands
          /\ last_call' = IF n = 0 THEN last_call
                          ELSE Call(rx_buffer, data, PushAll(rx_buffer, data), r.parsed,
                                    commands, r.commands, Len(delivered))
          /\ fed' = fed \o data
          /\ input' = SubSeq(input, n + 1, Len(input))
    /\ result' = None
    /\ iterations' = iterations + 1
    /\ last_op' = "iteration"
    /\ UNCHANGED <<transport, receive_buffer, rx_accumulator, message_str, loop_vars,
                   build_vars, link_vars>>

\* One iteration of ble_task.  process_events awaits connection.next() with
\* no timeout: it returns when the central has caused an event, a write of
\* the next n bytes or (n = 0) another event.
BleTaskLoopIteration(n) ==
    /\ transport = "ble"
    /\ iterations < MaxIterations
    /\ BleTaskBody(n)
    /\ iterations' = iterations + 1
    /\ UNCHANGED <<build_vars, link_vars>>

\* The main loop beside ble_task: its awaits are Timer::after only.
BleMainLoopIteration == transport = "ble" /\ MainLoopIteration

ControllerIterations ==
    \E level \in Levels : \E n \in Reads(Len(input)) : ControlLoopIteration(level, n)

AwaitNext ==
    \/ ControllerIterations
    \/ \E n \in {0} \cup ChunkSizes(Len(input), UsbPacketCap) : UsbMainLoopIteration(n)
    \/ \E n \in {0} \cup ChunkSizes(Len(input), Len(input)) : BleTaskLoopIteration(n)
    \/ BleMainLoopIteration

\* A task whose await has completed is run (the executor polls every woken
\* task), and a read with a timeout or a Timer completes by itself: a loop
\* iteration that needs nothing from the host, or whose bytes the host has
\* sent, is taken.  Whether the host sends a zero-length packet, goes away
\* or causes a BLE event that is no write is up to the host.
AwaitFairness ==
    /\ WF_vars(ControllerIterations)
    /\ WF_vars(\E n \in ChunkSizes(Len(input), UsbPacketCap) : UsbMainLoopIteration(n))
    /\ WF_vars(\E n \in ChunkSizes(Len(input), Len(input)) : BleTaskLoopIteration(n))
    /\ WF_vars(BleMainLoopIteration)

AwaitSpec == AwaitInit /\ [][AwaitNext]_vars /\ AwaitFairness

-----------------------------------------------------------------------------
(* get_capabilities_data as a function of its argument.  A behaviour of     *)
(* CapsSpec is one call: `input` is the bytes of caps, `result` the Vec     *)
(* that is returned.                                                        *)

MaxCapsLen == 258

\* A string of n bytes no two neighbours of which are equal (bytes above 127
\* among them: caps.as_bytes() may hold multi-byte characters).
Patterned(n) == [i \in 1..n |-> (i * 7) % 256]

CapsStrings == { Patterned(n) : n \in 0..MaxCapsLen } \cup { CapabilitiesJson }

CapsInit ==
    /\ transport = "ble"
    /\ input \in CapsStrings
    /\ fed = <<>>
    /\ rx_buffer = <<>>
    /\ commands = <<>>
    /\ last_call = NoCall
    /\ result = None
    /\ delivered = <<>>
    /\ receive_buffer = <<>>
    /\ rx_accumulator = <<>>
    /\ message_str = <<>>
    /\ last_op = "new"
    /\ BLE_RX_BUFFER = None
    /\ BLE_TX_BUFFER = None
    /\ display_buffer = ClearedDisplay
    /\ LinkIdle
    /\ ControlIdle

\* let data = service.get_capabilities_data(caps)
GetCapabilitiesData ==
    /\ last_op = "new"
    /\ result' = get_capabilities_data(input)
    /\ last_op' = "get_capabilities_data"
    /\ UNCHANGED <<transport, input, fed, rx_buffer, commands, last_call, delivered,
                   receive_buffer, rx_accumulator, message_str, loop_vars, control_vars, link_vars>>

CapsNext == GetCapabilitiesData

CapsSpec == CapsInit /\ [][CapsNext]_vars

-----------------------------------------------------------------------------
(* The BluetoothService with its connection flag: the receive and parse     *)
(* operations of the BLE build together with set_connected and              *)
(* is_connected.                                                            *)

\* What the central writes: one packet of BlePool, or the bytes of
\* test_process_received_data.
ServiceStreams == BlePool \cup { <<1, 2, 3, 1, 1, 5, 6>> }

ServiceInit ==
    /\ transport = "ble"
    /\ input \in ServiceStreams
    /\ fed = <<>>
    /\ rx_buffer = <<>>
    /\ commands = <<>>
    /\ last_call = NoCall
    /\ result = None
    /\ delivered = <<>>
    /\ receive_buffer = <<>>
    /\ rx_accumulator = <<>>
    /\ message_str = <<>>
    /\ last_op = "new"
    /\ BLE_RX_BUFFER = None
    /\ BLE_TX_BUFFER = None
    /\ display_buffer = ClearedDisplay
    /\ LinkIdle
    /\ ControlIdle

\* set_connected that can only raise the flag.
set_connected_sticky(flag, arg) == flag \/ arg

\* BluetoothService::set_connected: self.connected = connected
set_connected(flag, arg) == arg

\* service.set_connected(arg)
SetConnected(arg) ==
    /\ transport = "ble"
    /\ connected' = set_connected(connected, arg)
    /\ last_set' = Some(arg)
    /\ last_op' = "set_connected"
    /\ UNCHANGED <<transport, input, fed, rx_buffer, commands, last_call, result,
                   delivered, receive_buffer, rx_accumulator, message_str, ble_stack,
                   loop_vars, control_vars>>

\* service.is_connected(): self.connected
IsConnected ==
    /\ transport = "ble"
    /\ result' = connected
    /\ last_op' = "is_connected"
    /\ UNCHANGED <<transport, input, fed, rx_buffer, commands, last_call, delivered,
                   receive_buffer, rx_accumulator, message_str, link_vars, loop_vars,
                   control_vars>>

ServiceNext ==
    \/ \E n \in ChunkSizes(Len(input), Len(input)) : BleProcessReceivedData(n)
    \/ BleReceiveCommand
    \/ BleReceiveNeuronData
    \/ \E arg \in BOOLEAN : SetConnected(arg)
    \/ IsConnected

ServiceSpec == ServiceInit /\ [][ServiceNext]_vars

-----------------------------------------------------------------------------
(* The two micro:bit receivers side by side: the same bytes are handed to   *)
(* FeagiProtocol (transport-usb) and to BluetoothService (transport-ble),   *)
(* and each receive_command call is made on both.  `result` and `delivered` *)
(* hold one value per receiver.                                             *)

\* Well-formed frames of the wire table [command_id][payload_len][payload].
WirePool ==
    { Frame(IdGetCapabilities, <<>>),
      Frame(IdSetGpio, <<3, 1>>),
      Frame(IdSetPwm, <<7, 128>>),
      NeuronFiringFrame(<<>>),
      NeuronFiringFrame(<<<<5, 6>>>>),
      NeuronFiringFrame(<<<<1, 2>>, <<3, 4>>>>) }

RECURSIVE WireStreams(_)
WireStreams(n) ==
    IF n = 0 THEN { <<>> }
    ELSE LET shorter == WireStreams(n - 1)
         IN shorter \cup { s \o p : s \in shorter, p \in WirePool }

WireInit ==
    /\ transport = "usb+ble"
    /\ input \in WireStreams(MaxSegments)
    /\ fed = <<>>
    /\ rx_buffer = <<>>
    /\ commands = <<>>
    /\ last_call = NoCall
    /\ result = [usb |-> None, ble |-> None]
    /\ delivered = [usb |-> <<>>, ble |-> <<>>]
    /\ receive_buffer = <<>>
    /\ rx_accumulator = <<>>
    /\ message_str = <<>>
    /\ last_op = "new"
    /\ BLE_RX_BUFFER = None
    /\ BLE_TX_BUFFER = None
    /\ display_buffer = ClearedDisplay
    /\ LinkIdle
    /\ ControlIdle

\* protocol.process_received_data(&input[..n]) and
\* bluetooth.process_received_data(&input[..n])
WireProcessReceivedData(n) ==
    /\ transport = "usb+ble"
    /\ LET data == SubSeq(input, 1, n)
           r == process_received_data(rx_buffer, commands, data)
       IN /\ rx_buffer' = r.rx_buffer
          /\ commands' = r.commands
          /\ receive_buffer' = BlePushAll(receive_buffer, data)
          /\ fed' = fed \o data
          /\ input' = SubSeq(input, n + 1, Len(input))
    /\ last_op' = "process_received_data"
    /\ UNCHANGED <<transport, last_call, result, delivered, rx_accumulator, message_str,
                   loop_vars, link_vars, control_vars>>

\* protocol.receive_command() and bluetooth.receive_command()
WireReceiveCommand ==
    /\ transport = "usb+ble"
    /\ LET usb == IF commands = <<>> THEN None ELSE Head(commands)
           r == parse_neuron_firing_packet(receive_buffer)
           ble == IF r.coords = None THEN None ELSE NeuronFiring(r.coords.coordinates)
       IN /\ commands' = IF commands = <<>> THEN commands ELSE RemoveFront(commands, 1)
          /\ receive_buffer' = r.receive_buffer
          /\ result' = [usb |-> usb, ble |-> ble]
          /\ delivered' = [usb |-> IF usb = None THEN delivered.usb
                                   ELSE Append(delivered.usb, usb),
                           ble |-> IF ble = None THEN delivered.ble
                                   ELSE Append(delivered.ble, ble)]
    /\ last_op' = "receive_command"
    /\ UNCHANGED <<transport, input, fed, rx_buffer, last_call, rx_accumulator,
                   message_str, loop_vars, link_vars, control_vars>>

WireNext ==
    \/ \E n \in ChunkSizes(Len(input), Len(input)) : WireProcessReceivedData(n)
    \/ WireReceiveCommand

WireSpec == WireInit /\ [][WireNext]_vars

-----------------------------------------------------------------------------
(* The BleStack: its connected flag, its stored connection and its          *)
(* advertiser, under the calls of its API and the events of the radio.      *)
(* What the radio does (a central connects or not, the event a connection   *)
(* delivers) is chosen by the environment.                                  *)

MaxConnections == 2

\* The connections a central can make, told apart by a handle.
Connections == { Some(h) : h \in 1..MaxConnections }

Advertiser == Some("advertiser")

Ok(v) == [tag |-> "Ok", value |-> v]
Err(e) == [tag |-> "Err", error |-> e]

\* What advertiser.accept().await can return.
Accepts == { Ok(c.value) : c \in Connections } \cup { Err("accept") }

\* What connection.next().await can deliver: a write to the RX
\* characteristic, another GATT event (a write elsewhere, a read, a PDU the
\* server handles or rejects), the disconnection, or any other event.
ConnectionEvents ==
    { [event |-> "Write", data |-> d] : d \in BlePool }
    \cup { [event |-> "Gatt"], [event |-> "Disconnected"], [event |-> "Other"] }

\* No process_events call has been made yet.
NoEvents == [accept |-> "None", event |-> "None"]

StackInit ==
    /\ transport = "ble-stack"
    /\ input = <<>>
    /\ fed = <<>>
    /\ rx_buffer = <<>>
    /\ commands = <<>>
    /\ last_call = NoEvents
    /\ result = None
    /\ delivered = <<>>
    /\ receive_buffer = <<>>
    /\ rx_accumulator = <<>>
    /\ message_str = <<>>
    /\ last_op = "new"
    /\ BLE_RX_BUFFER = None
    /\ BLE_TX_BUFFER = None
    /\ display_buffer = ClearedDisplay
    /\ LinkIdle
    /\ ControlIdle

\* BleStack::start_advertising: peripheral.advertise either fails, and `?`
\* returns the error, or gives the advertiser that is stored.
StartAdvertising(started) ==
    /\ transport = "ble-stack"
    /\ ble_stack' = IF started THEN [ble_stack EXCEPT !.advertiser = Advertiser]
                    ELSE ble_stack
    /\ result' = IF started THEN Ok(<<>>) ELSE Err("Failed to start advertising")
    /\ last_op' = "start_advertising"
    /\ UNCHANGED <<transport, input, fed, rx_buffer, commands, last_call, delivered,
                   receive_buffer, rx_accumulator, message_str, connected, last_set,
                   loop_vars, control_vars>>

\* The first half of process_events: `if !self.connected`, the advertiser is
\* taken and accept() awaited; Ok stores the connection, Err stores nothing.
AcceptConnection(stack, accepted) ==
    IF ~stack.connected /\ stack.advertiser # None
    THEN IF accepted.tag = "Ok"
         THEN [connected |-> TRUE, connection |-> Some(accepted.value),
               advertiser |-> None]
         ELSE [stack EXCEPT !.advertiser = None]
    ELSE stack

\* process_events without `self.connection = None` at the disconnection.
ConnectionEventKeeping(stack, e) ==
    IF stack.connection # None /\ e.event = "Disconnected"
    THEN [stack EXCEPT !.connected = FALSE]
    ELSE stack

\* The second half of process_events: with a connection stored, the event
\* of connection.next().await; Disconnected clears the flag and the
\* connection.
ConnectionEvent(stack, e) ==
    IF stack.connection # None /\ e.event = "Disconnected"
    THEN [stack EXCEPT !.connected = FALSE, !.connection = None]
    ELSE stack

\* What a process_events call awaited and got: the outcome of accept()
\* ("None": not awaited) and the event of the connection ("None": none).
Awaited(stack, accepted, e) ==
    LET first == AcceptConnection(stack, accepted)
    IN [accept |-> IF ~stack.connected /\ stack.advertiser # None
                   THEN accepted.tag ELSE "None",
        event |-> IF first.connection # None THEN e.event ELSE "None"]

\* BleStack::process_events.  `accepted` is what accept() returns if it is
\* awaited, `e` the event of the connection if there is one; last_call
\* records what was awaited.
ProcessEvents(accepted, e) ==
    /\ transport = "ble-stack"
    /\ LET first == AcceptConnection(ble_stack, accepted)
       IN /\ ble_stack' = ConnectionEvent(first, e)
          /\ BLE_RX_BUFFER' = IF first.connection # None /\ e.event = "Write"
                              THEN GattWrite(e.data)
                              ELSE BLE_RX_BUFFER
    /\ last_call' = Awaited(ble_stack, accepted, e)
    /\ result' = None
    /\ last_op' = "process_events"
    /\ UNCHANGED <<transport, input, fed, rx_buffer, commands, delivered,
                   receive_buffer, rx_accumulator, message_str, connected, last_set,
                   BLE_TX_BUFFER, display_buffer, control_vars>>

\* BleStack::set_connection
SetConnection(connection) ==
    /\ transport = "ble-stack"
    /\ ble_stack' = [ble_stack EXCEPT !.connected = connection # None,
                                      !.connection = connection]
    /\ result' = None
    /\ last_op' = "set_connection"
    /\ UNCHANGED <<transport, input, fed, rx_buffer, commands, last_call, delivered,
                   receive_buffer, rx_accumulator, message_str, connected, last_set,
                   loop_vars, control_vars>>

\* BleStack::send_notify: its return value (the data is dropped).
send_notify(stack) ==
    IF ~stack.connected THEN Err("Not connected") ELSE Ok(<<>>)

\* ble_stack.send_notify(&data)
SendNotify ==
    /\ transport = "ble-stack"
    /\ result' = send_notify(ble_stack)
    /\ last_op' = "send_notify"
    /\ UNCHANGED <<transport, input, fed, rx_buffer, commands, last_call, delivered,
                   receive_buffer, rx_accumulator, message_str, link_vars, loop_vars,
                   control_vars>>

\* BleStack::receive_data: BLE_RX_BUFFER.take()
ReceiveData ==
    /\ transport = "ble-stack"
    /\ result' = Take(BLE_RX_BUFFER).value
    /\ BLE_RX_BUFFER' = Take(BLE_RX_BUFFER).slot
    /\ last_op' = "receive_data"
    /\ UNCHANGED <<transport, input, fed, rx_buffer, commands, last_call, delivered,
                   receive_buffer, rx_accumulator, message_str, link_vars,
                   BLE_TX_BUFFER, display_buffer, control_vars>>

\* A call of process_events in which accept() returns a connection.
CentralConnects ==
    \E accepted \in Accepts, e \in ConnectionEvents :
        /\ accepted.tag = "Ok"
        /\ ~ble_stack.connected /\ ble_stack.advertiser # None
        /\ ProcessEvents(accepted, e)

StackNext ==
    \/ \E started \in BOOLEAN : StartAdvertising(started)
    \/ \E accepted \in Accepts, e \in ConnectionEvents : ProcessEvents(accepted, e)
    \/ \E connection \in Connections \cup { None } : SetConnection(connection)
    \/ SendNotify
    \/ ReceiveData

StackSpec == StackInit /\ [][StackNext]_vars

\* The stack as main hands it to ble_task: BleStack::new and
\* start_advertising have succeeded.
TaskInit ==
    /\ transport = "ble-stack"
    /\ input = <<>>
    /\ fed = <<>>
    /\ rx_buffer = <<>>
    /\ commands = <<>>
    /\ last_call = NoEvents
    /\ result = Ok(<<>>)
    /\ delivered = <<>>
    /\ receive_buffer = <<>>
    /\ rx_accumulator = <<>>
    /\ message_str = <<>>
    /\ last_op = "start_advertising"
    /\ BLE_RX_BUFFER = None
    /\ BLE_TX_BUFFER = None
    /\ display_buffer = ClearedDisplay
    /\ connected = FALSE
    /\ last_set = None
    /\ ble_stack = [NewBleStack EXCEPT !.advertiser = Advertiser]
    /\ ControlIdle

\* The calls ble_task makes on the stack it owns.
TaskNext ==
    \/ \E accepted \in Accepts, e \in ConnectionEvents : ProcessEvents(accepted, e)
    \/ ReceiveData
    \/ SendNotify

\* ble_task calls process_events again and again, and each of its awaits
\* returns; a central that keeps being offered the chance connects.
StackFairness ==
    /\ WF_vars(\E accepted \in Accepts, e \in ConnectionEvents : ProcessEvents(accepted, e))
    /\ SF_vars(CentralConnects)

StackLiveSpec == TaskInit /\ [][TaskNext]_vars /\ StackFairness

-----------------------------------------------------------------------------
(* Vocabulary of the properties.                                           *)

IsUsb == transport = "usb"
IsBle == transport = "ble"
IsEsp32 == transport = "esp32"

IsPrefix(a, b) == Len(a) <= Len(b) /\ SubSeq(b, 1, Len(a)) = a

\* The bytes of a packet parse_packets went through.
PacketBytes(e) == <<e.cmd_id, e.payload_len>> \o e.payload

\* All 2 + payload_len bytes of the frame at the head of buf are there.
FrameAtHead(buf) == Len(buf) >= 2 /\ Len(buf) >= 2 + buf[2]

HeadFrame(buf) == SubSeq(buf, 1, 2 + buf[2])

\* What is in the accumulator once `data` was pushed behind `buf`.
Held(buf, data, cap) == SubSeq(buf \o data, 1, Min(Len(buf) + Len(data), cap))

\* A new FeagiProtocol that is handed `bytes` in one call.
Whole(bytes) == process_received_data(<<>>, <<>>, bytes)

\* The Commands the arms built for the packets of `log`, in the order of the log.
RECURSIVE Built(_)
Built(log) ==
    IF log = <<>> THEN <<>>
    ELSE (IF Head(log).cmd = None THEN <<>> ELSE <<Head(log).cmd>>) \o Built(Tail(log))

\* The packets of `log` lie one behind the other at the front of `buf`.
RECURSIVE InArrivalOrder(_, _)
InArrivalOrder(buf, log) ==
    \/ log = <<>>
    \/ /\ FrameAtHead(buf)
       /\ PacketBytes(Head(log)) = HeadFrame(buf)
       /\ InArrivalOrder(SubSeq(buf, Len(HeadFrame(buf)) + 1, Len(buf)), Tail(log))

\* This step is a call of process_received_data / of a receive_* function.
IsProcessStep == fed' # fed
IsReceiveStep == fed' = fed

KnownIds == { IdNeuronFiring, IdSetGpio, IdSetPwm, IdSetLedMatrix, IdGetCapabilities }

-----------------------------------------------------------------------------
(* C1  Chunk-boundary independence, as stated: however the stream is split  *)
(* into process_received_data calls, the Commands receive_command returns   *)
(* once the chunks are in (none was taken between two chunks) are those of  *)
(* a single call with the whole stream.                                     *)
C1_ChunkIndependence ==
    (IsUsb /\ last_call.drained = 0)
        => delivered \o commands = Whole(fed).commands

(* C1 as amended: the same, for streams of at most 256 bytes, the capacity  *)
(* of rx_buffer.                                                            *)
C1_ChunkIndependenceWithinCapacity ==
    (IsUsb /\ last_call.drained = 0 /\ Len(fed) <= RxBufferCap)
        => delivered \o commands = Whole(fed).commands

\* A frame arrived in pieces over several calls, and its Command was returned.
C1_Witness ==
    /\ IsUsb /\ last_call.drained = 0 /\ Len(fed) <= RxBufferCap
    /\ last_call.before # <<>> /\ last_call.parsed # <<>>
    /\ Len(delivered) >= 2 /\ input = <<>>

-----------------------------------------------------------------------------
(* C2  Decoding is resumable.  A process_received_data call that leaves the *)
(* frame at the head short of its 2 + payload_len bytes produces no Command *)
(* and keeps every buffered byte, in place, with the new bytes behind; the  *)
(* call that brings the missing bytes decodes that frame to what a new      *)
(* decoder makes of the frame handed over whole.  In the BLE receiver a     *)
(* receive call on a NeuronFiring packet that is not all there returns None *)
(* and leaves the buffer as it is, and a packet that is complete is         *)
(* returned as a new service returns it.                                    *)
BlePacketShort(buf) ==
    \/ Len(buf) < 2
    \/ buf[1] = IdNeuronFiring /\ buf[2] <= CoordinatesCap /\ Len(buf) < 2 + 2 * buf[2]

BlePacketAtHead(buf) ==
    /\ Len(buf) >= 2 /\ buf[1] = IdNeuronFiring /\ buf[2] <= CoordinatesCap
    /\ Len(buf) >= 2 + 2 * buf[2]

C2_UsbStep ==
    LET c == last_call'
        held == Held(rx_buffer, c.data, RxBufferCap)
    IN /\ IsPrefix(rx_buffer, held)
       /\ ~FrameAtHead(held) =>
              /\ commands' = commands
              /\ rx_buffer' = held
       /\ (rx_buffer # <<>> /\ FrameAtHead(held)) =>
              LET frame == HeadFrame(held)
                  alone == Whole(frame)
              IN /\ c.parsed # <<>>
                 /\ PacketBytes(c.parsed[1]) = frame
                 /\ alone.commands = Built(<<c.parsed[1]>>)
                 /\ alone.rx_buffer = <<>>
                 /\ Len(commands) < CommandsCap
                        => IsPrefix(commands \o alone.commands, commands')

C2_BleStep ==
    /\ BlePacketShort(receive_buffer) =>
           /\ result' = None
           /\ receive_buffer' = receive_buffer
    /\ BlePacketAtHead(receive_buffer) =>
           LET packet == SubSeq(receive_buffer, 1, 2 + 2 * receive_buffer[2])
               alone == parse_neuron_firing_packet(packet)
           IN /\ result' # None
              /\ result'.coordinates = alone.coords.coordinates
              /\ Len(result'.coordinates) = receive_buffer[2]
              /\ receive_buffer' = SubSeq(receive_buffer, Len(packet) + 1,
                                          Len(receive_buffer))

C2_Resumable ==
    [][ /\ (IsUsb /\ IsProcessStep) => C2_UsbStep
        /\ (IsBle /\ IsReceiveStep /\ vars' # vars) => C2_BleStep ]_vars

\* A frame whose header was waiting in rx_buffer was completed by the last
\* call and decoded to a Command.
C2_Witness ==
    /\ IsUsb
    /\ Len(last_call.before) >= 2 /\ last_call.parsed # <<>>
    /\ last_call.parsed[1].cmd # None
    /\ last_call.parsed[1].payload_len > 0

-----------------------------------------------------------------------------
(* C3  FIFO.  The packets of one process_received_data call are gone        *)
(* through in the order of their bytes, and the Commands the call adds to   *)
(* the queue are those built for them, in that order, behind the Commands   *)
(* already pending; receive_command returns the oldest pending Command and  *)
(* removes it, and returns None when none is pending.                       *)
C3_ProcessStep ==
    LET c == last_call'
        built == Built(c.parsed)
    IN /\ InArrivalOrder(Held(rx_buffer, c.data, RxBufferCap), c.parsed)
       /\ \E k \in 0..Len(built) : commands' = commands \o SubSeq(built, 1, k)

C3_ReceiveStep ==
    IF commands = <<>>
    THEN result' = None /\ commands' = <<>> /\ delivered' = delivered
    ELSE /\ result' = commands[1]
         /\ commands' = Tail(commands)
         /\ delivered' = Append(delivered, commands[1])

C3_Fifo ==
    [][ /\ (IsUsb /\ IsProcessStep) => C3_ProcessStep
        /\ (IsUsb /\ IsReceiveStep /\ vars' # vars) => C3_ReceiveStep ]_vars

\* One call went through several back-to-back frames, and two different
\* Commands of it have been returned.
C3_Witness ==
    /\ IsUsb
    /\ last_call.data = fed /\ Len(Built(last_call.parsed)) >= 2
    /\ Len(delivered) >= 2 /\ delivered[1] # delivered[2]
    /\ delivered = SubSeq(Built(last_call.parsed), 1, Len(delivered))

-----------------------------------------------------------------------------
(* C4  Decoding a complete frame removes exactly its 2 + payload_len bytes  *)
(* from the front of rx_buffer: what is left is every byte that lay behind  *)
(* the frame, unchanged and in order.                                       *)
C4_RemovesExactlyTheFrame ==
    IsUsb =>
        LET log == last_call.parsed
        IN /\ \A i \in DOMAIN log :
                  /\ Len(PacketBytes(log[i])) = 2 + log[i].payload_len
                  /\ log[i].before = PacketBytes(log[i]) \o log[i].after
                  /\ log[i].before = IF i = 1 THEN last_call.buffered ELSE log[i - 1].after
           /\ rx_buffer = IF log = <<>> THEN last_call.buffered ELSE log[Len(log)].after

\* A frame with a payload was decoded while bytes lay behind it.
C4_Witness ==
    /\ IsUsb
    /\ \E i \in DOMAIN last_call.parsed :
           /\ last_call.parsed[i].payload_len > 0
           /\ last_call.parsed[i].after # <<>>
    /\ rx_buffer # <<>>

-----------------------------------------------------------------------------
-----------------------------------------------------------------------------
(* C6  A NeuronFiring frame (0x01) produces a Command only when             *)
(* payload_len = 1 + 2*count and count <= 25, count being the first payload *)
(* byte; any other 0x01 frame produces none.                                *)
WellFormedNeuronFiring(payload) ==
    /\ Len(payload) >= 1
    /\ payload[1] <= CoordinatesCap
    /\ Len(payload) = 1 + 2 * payload[1]

C6_NeuronFiringValidated ==
    IsUsb =>
        \A i \in DOMAIN last_call.parsed :
            LET e == last_call.parsed[i]
            IN (e.cmd_id = IdNeuronFiring /\ e.cmd # None)
                   => WellFormedNeuronFiring(e.payload)

-----------------------------------------------------------------------------
(* C7  For every coordinate list of at most 25 pairs, the frame             *)
(* [0x01, 1 + 2*count, count, x1, y1, ...] decodes to NeuronFiring with     *)
(* exactly that list, in order: encoding the decoded list gives the frame   *)
(* back, and a decoder that was handed only that frame returns that one     *)
(* Command.                                                                 *)
C7_NeuronFiringLossless ==
    IsUsb =>
        /\ \A i \in DOMAIN last_call.parsed :
               LET e == last_call.parsed[i]
               IN (e.cmd_id = IdNeuronFiring /\ WellFormedNeuronFiring(e.payload)) =>
                      /\ e.cmd.tag = "NeuronFiring"
                      /\ Len(e.cmd.coordinates) = e.payload[1]
                      /\ NeuronFiringFrame(e.cmd.coordinates) = PacketBytes(e)
        /\ \A c \in CoordLists :
               fed = NeuronFiringFrame(c) => delivered \o commands = <<NeuronFiring(c)>>

\* The frame of a 25-pair list arrived and its Command was returned.
C7_Witness ==
    /\ IsUsb
    /\ fed = NeuronFiringFrame([i \in 1..CoordinatesCap |-> PatternPair(i)])
    /\ delivered = <<NeuronFiring([i \in 1..CoordinatesCap |-> PatternPair(i)])>>

-----------------------------------------------------------------------------
(* C8  SetGpio (0x02) and SetPwm (0x03) frames produce a Command only with  *)
(* a payload of exactly 2 bytes (pin = payload[0]; SetGpio's value is true  *)
(* iff payload[1] != 0, SetPwm's duty is payload[1]) and SetLedMatrix       *)
(* (0x04) only with exactly 25 (data = the payload); a frame of another     *)
(* length produces no Command and is removed whole, as [0x02, 0x01, 0x00].  *)
C8_FixedLengthFrames ==
    IsUsb =>
        /\ \A i \in DOMAIN last_call.parsed :
               LET e == last_call.parsed[i]
               IN /\ e.cmd_id = IdSetGpio =>
                       e.cmd = IF e.payload_len = 2
                               THEN SetGpio(e.payload[1], e.payload[2] # 0) ELSE None
                  /\ e.cmd_id = IdSetPwm =>
                       e.cmd = IF e.payload_len = 2
                               THEN SetPwm(e.payload[1], e.payload[2]) ELSE None
                  /\ e.cmd_id = IdSetLedMatrix =>
                       e.cmd = IF e.payload_len = 25 THEN SetLedMatrix(e.payload) ELSE None
                  /\ e.cmd_id \in {IdSetGpio, IdSetPwm, IdSetLedMatrix} =>
                       e.before = PacketBytes(e) \o e.after
        /\ fed = <<2, 1, 0>> => (delivered \o commands = <<>> /\ rx_buffer = <<>>)
        /\ (last_call.parsed # <<>>
                /\ \A i \in DOMAIN last_call.parsed : last_call.parsed[i].cmd = None)
               => last_call.queue_after = last_call.queue_before

\* [0x02, 0x01, 0x00] was received: dropped, and the accumulator is past it.
C8_Witness ==
    /\ IsUsb
    /\ fed = <<2, 1, 0>>
    /\ Len(last_call.parsed) = 1
    /\ last_call.parsed[1].cmd = None
    /\ rx_buffer = <<>> /\ commands = <<>>

-----------------------------------------------------------------------------
-----------------------------------------------------------------------------
(* C10  No accumulator ever holds more bytes than its capacity (256 for     *)
(* FeagiProtocol.rx_buffer and BluetoothService.receive_buffer, 512 for the *)
(* ESP32 rx_accumulator), and the command queue never holds more than 8:    *)
(* between the calls, and inside a call once the received bytes were pushed.*)
C10_CapacityNeverExceeded ==
    /\ Len(rx_buffer) <= 256
    /\ Len(receive_buffer) <= 256
    /\ Len(rx_accumulator) <= 512
    /\ Len(commands) <= 8
    /\ Len(last_call.buffered) <= (IF IsEsp32 THEN 512 ELSE 256)
    /\ Len(last_call.queue_after) <= 8

\* rx_buffer is full, and bytes of the last call did not fit.
C10_Witness ==
    /\ IsUsb
    /\ Len(rx_buffer) = RxBufferCap
    /\ Len(last_call.before) + Len(last_call.data) > RxBufferCap

-----------------------------------------------------------------------------
(* Vocabulary of the overflow properties.                                   *)

\* Capacity of the accumulator of this build.
AccumulatorCap ==
    CASE IsUsb -> RxBufferCap
      [] IsBle -> ReceiveBufferCap
      [] OTHER -> RxAccumulatorCap

\* The accumulator of this build.
Accumulator ==
    CASE IsUsb -> rx_buffer
      [] IsBle -> receive_buffer
      [] OTHER -> rx_accumulator

\* The last call was handed more bytes than the accumulator had room for.
LastCallOverflowed ==
    Len(last_call.before) + Len(last_call.data) > AccumulatorCap

-----------------------------------------------------------------------------
(* C11  Overflow clears the accumulator: when a call brings more bytes than *)
(* the accumulator has room for, the accumulator is empty once the bytes    *)
(* were pushed - in FeagiProtocol, in BluetoothService and in the ESP32     *)
(* main loop.                                                               *)
C11_OverflowClears ==
    (last_op \in {"process_received_data", "read"} /\ LastCallOverflowed)
        => last_call.buffered = <<>>

-----------------------------------------------------------------------------
(* C12  More than C bytes without a complete valid frame: once the call     *)
(* that takes the stream beyond the capacity C has returned, and the bytes  *)
(* received so far hold no frame that decodes to a Command, the accumulator *)
(* is empty, no Command is queued and none was returned.                    *)
NoValidFrame(bytes) ==
    IF IsUsb
    THEN Built(parse_packets(bytes, <<>>, <<>>).parsed) = <<>>
    ELSE parse_neuron_firing_packet(bytes).coords = None

C12_OverflowLeavesNothing ==
    ( /\ IsUsb \/ IsBle
      /\ Len(fed) > AccumulatorCap
      /\ Len(fed) - Len(last_call.data) <= AccumulatorCap
      /\ NoValidFrame(fed) )
        => /\ Accumulator = <<>>
           /\ commands = <<>>
           /\ delivered = <<>>

-----------------------------------------------------------------------------
(* C13  The decoder never deadlocks: in every reachable state, once the     *)
(* bytes that whatever is pending still waits for have arrived (the rest of *)
(* the frame at the head; a newline; for the BLE receiver at most one       *)
(* buffer load), a well-formed message handed over in the next call is      *)
(* decoded.                                                                 *)

\* The bytes the frame at the head of rx_buffer still waits for.
MissingBytes(buf) ==
    CASE buf = <<>> -> <<>>
      [] Len(buf) = 1 -> <<0>>
      [] OTHER -> Fill(2 + buf[2] - Len(buf), 0)

UsbRecovers ==
    LET first == process_received_data(rx_buffer, <<>>, MissingBytes(rx_buffer))
        second == process_received_data(first.rx_buffer, <<>>,
                                        Frame(IdGetCapabilities, <<>>))
    IN /\ second.parsed # <<>>
       /\ second.parsed[Len(second.parsed)].cmd = GetCapabilities
       /\ second.rx_buffer = <<>>

BleRecovers ==
    \E flush \in { <<>>, Fill(ReceiveBufferCap + 1, 0) } :
        LET first == BlePushAll(receive_buffer, flush)
            second == BlePushAll(first, BlePacket(<<<<1, 2>>>>))
        IN parse_neuron_firing_packet(second).coords
               = [tag |-> "Some", coordinates |-> <<<<1, 2>>>>]

Esp32Recovers ==
    LET first == Accumulate(rx_accumulator, <<Newline>>)
        kept == IF NewlinePosition(first) > 0 THEN <<>> ELSE first
        second == Accumulate(kept, <<118, 58, 49, Newline>>)
    IN /\ NewlinePosition(second) > 0
       /\ ExtractMessage(SubSeq(second, 1, NewlinePosition(second) - 1))
              = <<118, 58, 49>>

C13_DecoderNeverDeadlocks ==
    CASE IsUsb -> UsbRecovers
      [] IsBle -> BleRecovers
      [] OTHER -> Esp32Recovers

-----------------------------------------------------------------------------
(* C14  Overflow is the only way to lose data: as long as every byte handed *)
(* to process_received_data found room in rx_buffer, the Commands returned  *)
(* by receive_command so far, followed by those still queued, are exactly   *)
(* the Commands of the complete frames received so far, one per frame, in   *)
(* order - however many frames arrived before the queue was read.           *)
C14_OverflowOnlyLoss ==
    (IsUsb /\ Len(fed) <= RxBufferCap)
        => delivered \o commands = Built(parse_packets(fed, <<>>, <<>>).parsed)

-----------------------------------------------------------------------------
(* C15  BLE receiver, first byte not 0x01: a receive_command or             *)
(* receive_neuron_data call on a receive buffer that starts with another    *)
(* byte returns no command and takes bytes off the front of the buffer.     *)
C15_InvalidHeaderAdvances ==
    [][ ( /\ IsBle /\ IsReceiveStep
          /\ receive_buffer # <<>>
          /\ receive_buffer[1] # IdNeuronFiring )
            => /\ result' = None
               /\ Len(receive_buffer') < Len(receive_buffer) ]_vars

-----------------------------------------------------------------------------
(* C16  BLE receiver, a packet [0x01, count, x1, y1, ...] with count <= 25  *)
(* all of which is in the receive buffer: the receive call returns the      *)
(* count pairs (x_i, y_i) in the order of the bytes - receive_neuron_data   *)
(* as Some(coordinates), receive_command as NeuronFiring - and leaves the   *)
(* bytes behind the packet.                                                 *)

\* The i-th pair of the packet at the head of buf, i from 1.
PairOfPacket(buf, i) == <<buf[2 * i + 1], buf[2 * i + 2]>>

C16_BlePacketDecoded ==
    [][ (IsBle /\ IsReceiveStep /\ vars' # vars /\ BlePacketAtHead(receive_buffer))
            => LET count == receive_buffer[2]
                   pairs == [i \in 1..count |-> PairOfPacket(receive_buffer, i)]
               IN /\ last_op' = "receive_neuron_data"
                         => result' = [tag |-> "Some", coordinates |-> pairs]
                  /\ last_op' = "receive_command" => result' = NeuronFiring(pairs)
                  /\ delivered' = Append(delivered, NeuronFiring(pairs))
                  /\ receive_buffer' = SubSeq(receive_buffer, 2 * count + 3,
                                              Len(receive_buffer)) ]_vars

\* The bytes [0x01, 0x02, 0x01, 0x02, 0x03, 0x04] were received and
\* receive_neuron_data returned [(1,2),(3,4)].
C16_Witness ==
    /\ IsBle
    /\ fed = <<1, 2, 1, 2, 3, 4>>
    /\ last_op = "receive_neuron_data"
    /\ result = [tag |-> "Some", coordinates |-> <<<<1, 2>>, <<3, 4>>>>]
    /\ receive_buffer = <<>>

-----------------------------------------------------------------------------
(* C17  BLE receiver, a packet that declares more than 25 coordinates: with *)
(* [0x01, count > 25] at the head of the receive buffer a receive call      *)
(* returns None, delivers nothing and leaves the buffer as it is, so that   *)
(* no later call returns coordinates of that packet either.                 *)
TooManyCoordsAtHead(buf) ==
    Len(buf) >= 2 /\ buf[1] = IdNeuronFiring /\ buf[2] > CoordinatesCap

C17_TooManyCoordsRejected ==
    [][ (IsBle /\ IsReceiveStep /\ TooManyCoordsAtHead(receive_buffer))
            => /\ result' = None
               /\ delivered' = delivered
               /\ receive_buffer' = receive_buffer ]_vars

\* receive_neuron_data has just returned None on a buffer that holds all
\* 2 + 2*26 bytes of a packet with count 26.
C17_Witness ==
    /\ IsBle
    /\ last_op = "receive_neuron_data"
    /\ TooManyCoordsAtHead(receive_buffer)
    /\ receive_buffer[2] = 26
    /\ Len(receive_buffer) = 2 + 2 * 26
    /\ result = None
    /\ delivered = <<>>

-----------------------------------------------------------------------------
(* C18  Replace, not merge.  Whatever the display buffer held, dispatching  *)
(* NeuronFiring leaves 255 in exactly the cells (x, y) of its coordinates   *)
(* that lie on the 5x5 matrix and 0 in every other cell, and dispatching    *)
(* SetLedMatrix leaves data[5*y + x] in every cell (x, y); so SetLedMatrix  *)
(* followed by NeuronFiring shows the NeuronFiring pixels only.             *)
Cells == (0..(DisplaySize - 1)) \X (0..(DisplaySize - 1))

Fired(coordinates) == { coordinates[i] : i \in 1..Len(coordinates) }

C18_NeuronFiringReplaces ==
    [][ delivered' # delivered =>
          /\ result'.tag = "NeuronFiring" =>
                 \A c \in Cells :
                     display_buffer'[c[2]][c[1]]
                         = IF c \in Fired(result'.coordinates) THEN 255 ELSE 0
          /\ result'.tag = "SetLedMatrix" =>
                 \A c \in Cells :
                     display_buffer'[c[2]][c[1]] = result'.data[5 * c[2] + c[1] + 1]
      ]_vars

\* SetLedMatrix with every cell at 255 was dispatched, NeuronFiring with
\* (1,2) and (3,4) right after it, and only those two cells are lit.
C18_Witness ==
    /\ Len(delivered) >= 2
    /\ delivered[Len(delivered) - 1] = SetLedMatrix(Fill(25, 255))
    /\ delivered[Len(delivered)] = NeuronFiring(<<<<1, 2>>, <<3, 4>>>>)
    /\ display_buffer[2][1] = 255 /\ display_buffer[4][3] = 255
    /\ \A c \in Cells \ {<<1, 2>>, <<3, 4>>} : display_buffer[c[2]][c[1]] = 0

-----------------------------------------------------------------------------
(* C19  GetCapabilities end to end: when the bytes the main loop has        *)
(* received so far are [0x05, 0x00], the iteration that received them has   *)
(* dispatched GetCapabilities and BLE_TX_BUFFER holds a non-empty reply.    *)
C19_CapabilitiesReply ==
    [][ (fed' # fed /\ fed' = <<IdGetCapabilities, 0>>)
            => /\ BLE_TX_BUFFER' # None
               /\ BLE_TX_BUFFER'.value # <<>> ]_vars

-----------------------------------------------------------------------------
(* C20  The handoff slots.  Each slot is empty or holds one chunk of at     *)
(* most 256 bytes.  The main loop's take of BLE_RX_BUFFER empties the slot  *)
(* and hands the stored chunk, whole, to the decoder; a write by ble_task   *)
(* puts the new chunk in the slot whatever was there; ble_task never        *)
(* empties BLE_RX_BUFFER and the main loop never fills it; BLE_TX_BUFFER is *)
(* filled by the main loop only and emptied by ble_task only.               *)
IsSlot(slot) ==
    \/ slot = None
    \/ /\ slot.tag = "Some"
       /\ Len(slot.value) <= 256

SlotsHoldOneChunk == IsSlot(BLE_RX_BUFFER) /\ IsSlot(BLE_TX_BUFFER)

MainLoopHandoff ==
    /\ BLE_RX_BUFFER' = None
    /\ BLE_RX_BUFFER = None => fed' = fed
    /\ BLE_RX_BUFFER # None => fed' = fed \o BLE_RX_BUFFER.value
    /\ BLE_TX_BUFFER # None => BLE_TX_BUFFER' # None

BleTaskHandoff ==
    /\ input' # input =>
           LET chunk == SubSeq(input, 1, Len(input) - Len(input'))
           IN BLE_RX_BUFFER' = [tag |-> "Some",
                                value |-> SubSeq(chunk, 1, Min(Len(chunk), 256))]
    /\ input' = input => BLE_RX_BUFFER' = BLE_RX_BUFFER
    /\ BLE_TX_BUFFER' = None
    /\ fed' = fed

-----------------------------------------------------------------------------
(* C21  Across calls the accumulator keeps the undelivered bytes in arrival *)
(* order.  FeagiProtocol: after a process_received_data call rx_buffer is   *)
(* what was buffered less the frames decoded from its front.  ESP32: after  *)
(* a read that extracted a message, rx_accumulator holds the bytes that lay *)
(* behind the message's newline (the start of the next message), in order;  *)
(* after a read that extracted none, all the buffered bytes.                *)
RECURSIVE AllPacketBytes(_)
AllPacketBytes(log) ==
    IF log = <<>> THEN <<>> ELSE PacketBytes(Head(log)) \o AllPacketBytes(Tail(log))

BehindNewline(acc) ==
    IF NewlinePosition(acc) = 0 THEN acc
    ELSE SubSeq(acc, NewlinePosition(acc) + 1, Len(acc))

C21_UsbKeepsUndelivered ==
    (IsUsb /\ last_op = "process_received_data")
        => last_call.buffered = AllPacketBytes(last_call.parsed) \o rx_buffer

C21_Esp32KeepsUndelivered ==
    (IsEsp32 /\ last_op = "read") => rx_accumulator = BehindNewline(last_call.buffered)

C21_AccumulatorKeepsUndelivered ==
    C21_UsbKeepsUndelivered /\ C21_Esp32KeepsUndelivered

-----------------------------------------------------------------------------
(* Vocabulary of the ESP32 control-loop properties.                         *)

IsController == transport = "esp32"
IsStandalone == transport = "esp32-standalone"

\* This step is an iteration of the firmware's loop.
IsIteration == iterations' = iterations + 1

\* b is a + 1: below some limb every limb of a is full and that of b is 0,
\* that limb is one more in b, and the limbs above it are equal.
IsSuccessor(a, b) ==
    \E k \in DOMAIN a :
        /\ \A i \in 1..(k - 1) : a[i] = LimbMax /\ b[i] = 0
        /\ a[k] < LimbMax /\ b[k] = a[k] + 1
        /\ \A i \in (k + 1)..Len(a) : b[i] = a[i]

-----------------------------------------------------------------------------
(* C22  The frame counter is 0 when the controller's loop is entered; every *)
(* iteration, whether or not it sent a packet or received bytes, leaves it  *)
(* one greater, and an iteration that finds it at u64::MAX leaves it at 0.  *)
FrameStepped ==
    IF frame_number = MaxValue(U64Limbs)
    THEN frame_number' = Zero(U64Limbs)
    ELSE IsSuccessor(frame_number, frame_number')

C22_FrameCounter ==
    /\ [](IsController /\ last_op = "new" => frame_number = Zero(U64Limbs))
    /\ [][IsController /\ IsIteration => FrameStepped]_vars

\* Two iterations have taken the counter from u64::MAX - 1 over u64::MAX to
\* 0, the second one without sending or receiving anything.
C22_Witness ==
    /\ IsController
    /\ iterations = 2
    /\ frame_number = Zero(U64Limbs)
    /\ uart_tx = None
    /\ fed = <<>>

-----------------------------------------------------------------------------
(* C23  Every outbound sensory packet carries the current frame number: the *)
(* text between "f": and the closing brace is the decimal representation of *)
(* the value frame_number has when the packet is written, for every value   *)
(* of the 64-bit counter.                                                   *)

\* The text is the decimal representation of n: digits, no leading zero
\* (but "0" itself), whose value is n.
RECURSIVE DecimalValue(_, _, _)
DecimalValue(text, i, acc) ==
    IF i > Len(text) THEN acc
    ELSE DecimalValue(text, i + 1, MulAdd10From(acc, text[i] - Digit0, 1, <<>>).value)

IsDecimalOf(text, n) ==
    /\ text # <<>>
    /\ \A i \in DOMAIN text : IsDigit(text[i])
    /\ Len(text) > 1 => text[1] # Digit0
    /\ Len(text) <= 20
    /\ DecimalValue(text, 1, Zero(Len(n) + 1)) = n \o <<0>>

\* What a packet has between its last ':' and its closing "}\n".
FrameText(packet) ==
    IF Len(packet) >= 2 /\ SubSeq(packet, Len(packet) - 1, Len(packet)) = JsonClose
    THEN SubSeq(packet, RFindColon(packet) + 1, Len(packet) - 2)
    ELSE <<>>

C23_FrameNumberInPacket ==
    [][ (IsController /\ uart_tx' # None)
            => IsDecimalOf(FrameText(uart_tx'.value), frame_number) ]_vars

-----------------------------------------------------------------------------
(* C24  Every outbound sensory packet is at most 512 bytes and is the       *)
(* object {"np":[pairs],"id":"esp32","f":frame} followed by a newline; the  *)
(* pairs are those of the samples, or, when all of them would not fit in    *)
(* 512 bytes, of as many leading samples as fit: trailing samples are       *)
(* dropped whole.                                                           *)

\* [id,pot] for each sample, separated by commas.
RECURSIVE JoinedPairs(_)
JoinedPairs(data) ==
    IF data = <<>> THEN <<>>
    ELSE BracketOpen \o u32_to_string(data[Len(data)][1], IdStrCap) \o Comma
         \o <<Digit0 + PotInt(data[Len(data)][2])>> \o BracketClose
         \o (IF Len(data) > 1 THEN Comma ELSE <<>>)
         \o JoinedPairs(SubSeq(data, 1, Len(data) - 1))

\* The packet for the samples of `data` (JoinedPairs lists them last first)
\* and the frame text.
Encoded(data, frame_text) ==
    JsonOpen \o JoinedPairs(Reverse(data)) \o JsonIdAndFrame \o frame_text \o JsonClose

C24_PacketWellFormed ==
    [][ (IsController /\ uart_tx' # None) =>
            LET text == u64_to_string(frame_number, FrameStrCap)
                Fits(k) == Len(Encoded(SubSeq(sensory_data', 1, k), text)) <= JsonCap
            IN /\ Len(uart_tx'.value) <= JsonCap
               /\ \E k \in 0..Len(sensory_data') :
                      /\ Fits(k)
                      /\ k < Len(sensory_data') => ~Fits(k + 1)
                      /\ uart_tx'.value = Encoded(SubSeq(sensory_data', 1, k), text) ]_vars

-----------------------------------------------------------------------------
(* C25  The packet of an iteration lists, in configuration order, exactly   *)
(* one pair [neuron_id, b] for every configured digital input (entry of     *)
(* digital_input_configs) whose pin is in the allow-list and whose mapping  *)
(* resolves to neuron_id, with b = 1 iff the pin read high; inputs whose    *)
(* mapping does not resolve, or whose pin is not in the list, have no pair. *)

\* <<neuron_id, b>> for the inputs that count, in the order of `configs`.
RECURSIVE ListedPairs(_, _)
ListedPairs(configs, level) ==
    IF configs = <<>> THEN <<>>
    ELSE LET pin == Head(configs)[1]
             nid == parse_neuron_id(Head(configs)[2])
             rest == ListedPairs(Tail(configs), level)
         IN IF pin \in GetPinList /\ nid # None
            THEN << <<nid.value, IF level[pin] = "High" THEN 1 ELSE 0>> >> \o rest
            ELSE rest

\* [id,b],[id,b],...
RECURSIVE PairListText(_)
PairListText(pairs) ==
    IF pairs = <<>> THEN <<>>
    ELSE BracketOpen \o u32_to_string(Head(pairs)[1], IdStrCap) \o Comma
         \o <<Digit0 + Head(pairs)[2]>> \o BracketClose
         \o (IF Len(pairs) > 1 THEN Comma ELSE <<>>)
         \o PairListText(Tail(pairs))

-----------------------------------------------------------------------------
(* C26  parse_neuron_id returns Some(n) when the whole mapping string       *)
(* parses as an unsigned 32-bit integer n; otherwise Some(m) when the text  *)
(* after the last ':' parses as an unsigned 32-bit integer m; otherwise     *)
(* None.  It returns on every string (the empty one and those ending in ':' *)
(* included) and changes nothing but its result.                            *)

\* The text is an optional '+' and then one digit or more.
IsUnsignedNumeral(text) ==
    LET digits == IF text # <<>> /\ text[1] = Plus THEN Tail(text) ELSE text
    IN digits # <<>> /\ \A i \in DOMAIN digits : IsDigit(digits[i])

\* The value of the numeral, in 48 bits (the numerals of Mappings have at
\* most 11 digits).
NumeralValue(text) ==
    DecimalValue(IF text[1] = Plus THEN Tail(text) ELSE text, 1, Zero(U32Limbs + 1))

\* Some(n) if the text parses as the unsigned 32-bit integer n, else None.
AsU32(text) ==
    IF IsUnsignedNumeral(text) /\ NumeralValue(text)[U32Limbs + 1] = 0
    THEN Some(SubSeq(NumeralValue(text), 1, U32Limbs))
    ELSE None

AfterLastColon(text) ==
    LET last == CHOOSE i \in DOMAIN text :
                    text[i] = Colon /\ \A j \in (i + 1)..Len(text) : text[j] # Colon
    IN SubSeq(text, last + 1, Len(text))

HasColon(text) == \E i \in DOMAIN text : text[i] = Colon

C26_ParseNeuronId ==
    /\ [](last_op = "parse_neuron_id" =>
             result = IF AsU32(input) # None THEN AsU32(input)
                      ELSE IF HasColon(input) THEN AsU32(AfterLastColon(input))
                      ELSE None)
    /\ [][last_op' = "parse_neuron_id" =>
             UNCHANGED <<transport, input, fed, rx_buffer, commands, last_call, delivered,
                         receive_buffer, rx_accumulator, message_str, loop_vars,
                         control_vars, link_vars>>]_vars

\* "::7" gave Some(7): the whole string is no number, the text after the
\* last ':' is.
C26_Witness ==
    /\ last_op = "parse_neuron_id"
    /\ input = <<Colon, Colon, 55>>
    /\ result = Some(Small(U32Limbs, 7))


-----------------------------------------------------------------------------
(* C27  A motor command (neuron id nid, value val) drives exactly the       *)
(* digital-output pins of the configuration whose mapping resolves to nid   *)
(* and whose number is in the pin allow-list, high iff val > 0.5, and       *)
(* leaves every other pin as it was (the activity LED apart, which every    *)
(* iteration blinks); with no such pin the command changes no pin, and the  *)
(* iteration completes.                                                     *)
MappedOutputs(nid) ==
    { p \in GetPinList :
        \E i \in DOMAIN GPIO_CONFIG :
            /\ GPIO_CONFIG[i].mode = "DigitalOutput"
            /\ GPIO_CONFIG[i].pin = p
            /\ parse_neuron_id(GPIO_CONFIG[i].cortical_mapping) = Some(nid) }

IsMotorCommand(cmd) == cmd.neuron_id # None /\ cmd.value # None

-----------------------------------------------------------------------------
(* C28  In every iteration of the controller loop and of the standalone     *)
(* loop the delay that ends the iteration is computed without underflow and *)
(* lies in [0, period_ms], where period_ms = 1000 / burst frequency, for    *)
(* every burst frequency of 1 Hz or more.                                   *)
PeriodMs == Small(U32Limbs, 1000 \div BURST_FREQUENCY_HZ)

C28_DelayWithinPeriod ==
    (last_op = "iteration" /\ BURST_FREQUENCY_HZ >= 1) =>
        /\ delay # Panic
        /\ delay # None => ~Less(PeriodMs, delay.value)

-----------------------------------------------------------------------------
(* C29  No iteration of a loop blocks for ever on I/O: when no bytes arrive *)
(* on the transport (the host has nothing left to send), the loop that is   *)
(* followed (ESP32 controller loop, micro:bit USB main loop, micro:bit      *)
(* ble_task) still finishes the iteration it is in and starts the next.     *)
C29_NoIterationBlocks ==
    \A k \in 0..(MaxIterations - 1) :
        (input = <<>> /\ iterations = k) ~> (iterations > k)

-----------------------------------------------------------------------------
(* C30  No decode or dispatch step of a running main loop panics: whatever  *)
(* bytes arrive, every index into rx_buffer / receive_buffer, the payload,  *)
(* the command queue and the 5x5 display buffer is in bounds (NeuronFiring  *)
(* coordinates with x >= 5 or y >= 5 are skipped) and Vec::remove is only   *)
(* called on a vector that holds an element.                                *)
(*                                                                          *)
(* An access is <<index, length>>: `index` (from 0) into something of       *)
(* `length` elements.  A slice a..b is in bounds when b <= length, which is *)
(* the access <<b - 1, length>>.                                            *)
InBounds(access) == 0 <= access[1] /\ access[1] < access[2]

\* The 0x01 arm that reads every pair the count announces.
NeuronFiringReadsAnnounced(payload) ==
    IF Len(payload) >= 1 /\ Len(payload) % 2 = 1
    THEN {0} \cup UNION { {1 + i * 2, 1 + i * 2 + 1} : i \in 0..(payload[1] - 1) }
    ELSE {}

\* protocol.rs, the 0x01 arm: payload[0], and payload[1 + i * 2] and
\* payload[1 + i * 2 + 1] for the i the inner `if` lets through.
NeuronFiringReads(payload) ==
    IF Len(payload) >= 1 /\ Len(payload) % 2 = 1
    THEN {0} \cup UNION { {1 + i * 2, 1 + i * 2 + 1} :
                            i \in { j \in 0..(payload[1] - 1) : PairInPayload(payload, j) } }
    ELSE {}

\* The indices into `payload` that the arm for cmd_id reads (0x04:
\* copy_from_slice, which wants 25 bytes).
ArmReads(cmd_id, payload) ==
    CASE cmd_id = IdNeuronFiring -> NeuronFiringReads(payload)
      [] cmd_id \in {IdSetGpio, IdSetPwm} -> IF Len(payload) = 2 THEN {0, 1} ELSE {}
      [] cmd_id = IdSetLedMatrix -> IF Len(payload) = 25 THEN 0..24 ELSE {}
      [] OTHER -> {}

\* One pass of the while loop of parse_packets, e its entry in the log:
\* rx_buffer[0], rx_buffer[1], the slice 2..2 + payload_len, the reads of
\* the arm, and 2 + payload_len times rx_buffer.remove(0).
ParsePacketAccesses(e) ==
    { <<0, Len(e.before)>>, <<1, Len(e.before)>>, <<2 + e.payload_len - 1, Len(e.before)>> }
    \cup { <<i, Len(e.payload)>> : i \in ArmReads(e.cmd_id, e.payload) }
    \cup { <<0, Len(e.before) - k>> : k \in 0..(2 + e.payload_len - 1) }

\* `while let Some(cmd) = protocol.receive_command()`: commands.remove(0)
\* while the queue is not empty.
ReceiveCommandAccesses(cmds) == { <<0, n>> : n \in 1..Len(cmds) }

\* parse_neuron_firing_packet: receive_buffer[0] and [1] behind the length
\* check, the pairs, and the shift loop `for i in consumed..len`.
BleParseAccesses(buf) ==
    LET len == Len(buf)
        count == buf[2]
        consumed == 2 + count * 2
        pairs == 0..(Min(count, CoordinatesCap) - 1)
    IN IF len < 2 THEN {}
       ELSE IF buf[1] # IdNeuronFiring THEN { <<0, len>> }
       ELSE IF BleReturnsNone(buf) THEN { <<0, len>>, <<1, len>> }
       ELSE { <<0, len>>, <<1, len>> }
            \cup UNION { { <<2 + i * 2, len>>, <<2 + i * 2 + 1, len>> } : i \in pairs }
            \cup UNION { { <<i, len>>, <<i - consumed, len>> } : i \in consumed..(len - 1) }

\* The display cells <<y, x>> the arm for cmd writes: display_buffer[y][x].
DisplayWrites(cmd) ==
    CASE cmd.tag = "NeuronFiring" ->
             { <<cmd.coordinates[i][2], cmd.coordinates[i][1]>> :
                 i \in { j \in DOMAIN cmd.coordinates :
                           /\ cmd.coordinates[j][1] < DisplaySize
                           /\ cmd.coordinates[j][2] < DisplaySize } }
      [] cmd.tag = "SetLedMatrix" ->
             { <<i \div DisplaySize, i % DisplaySize>> : i \in 0..(Len(cmd.data) - 1) }
      [] OTHER -> {}

InDisplay(cell) == cell[1] \in 0..(DisplaySize - 1) /\ cell[2] \in 0..(DisplaySize - 1)

\* What the step that is taken hands to the decoder, and what it dispatches.
UsbBuffered == PushAll(rx_buffer, SubSeq(input, 1, Len(input) - Len(input')))
BleBuffered ==
    IF BLE_RX_BUFFER = None THEN receive_buffer
    ELSE BlePushAll(receive_buffer, BLE_RX_BUFFER.value)
Dispatched == SubSeq(delivered', Len(delivered) + 1, Len(delivered'))

C30_NoPanic ==
    [][ /\ (IsUsb /\ IsIteration) =>
              LET r == parse_packets(UsbBuffered, commands, <<>>)
              IN /\ \A i \in DOMAIN r.parsed :
                        \A a \in ParsePacketAccesses(r.parsed[i]) : InBounds(a)
                 /\ \A a \in ReceiveCommandAccesses(r.commands) : InBounds(a)
                 /\ rx_buffer' = r.rx_buffer
        /\ (IsBle /\ last_op' = "main_loop") =>
              /\ \A a \in BleParseAccesses(BleBuffered) : InBounds(a)
              /\ \A a \in BleParseAccesses(parse_neuron_firing_packet(BleBuffered).receive_buffer) :
                     InBounds(a)
              /\ \A i \in DOMAIN Dispatched :
                     \A cell \in DisplayWrites(Dispatched[i]) : InDisplay(cell) ]_vars

\* The main loop dispatched NeuronFiring with the pair (5, 6), which is off
\* the display: no cell was written.
C30_Witness ==
    /\ IsBle /\ last_op = "main_loop"
    /\ delivered # <<>>
    /\ delivered[Len(delivered)] = NeuronFiring(<< <<5, 6>> >>)
    /\ display_buffer = ClearedDisplay
    /\ LinkIdle

-----------------------------------------------------------------------------
(* C31  get_capabilities_data returns the bytes of the capabilities string  *)
(* complete and unchanged when the string has at most 256 bytes, and        *)
(* exactly its first 256 bytes when it is longer.                           *)
C31_CapabilitiesData ==
    last_op = "get_capabilities_data" =>
        /\ Len(input) <= 256 => result = input
        /\ Len(input) > 256 =>
               /\ Len(result) = 256
               /\ \A i \in 1..256 : result[i] = input[i]

\* A string of 257 bytes came back without its last byte.
C31_Witness ==
    /\ last_op = "get_capabilities_data"
    /\ Len(input) = 257
    /\ result = SubSeq(input, 1, 256)

-----------------------------------------------------------------------------
(* C32  A BluetoothService starts disconnected; is_connected returns the    *)
(* argument of the most recent set_connected call (false before the first   *)
(* call), and process_received_data, receive_command and                    *)
(* receive_neuron_data leave the connection flag as it was.                 *)
C32_FlagFollowsSetConnected ==
    /\ connected = (IF last_set = None THEN FALSE ELSE last_set.value)
    /\ last_op = "is_connected" => result = connected

C32_ReceiveKeepsFlag ==
    last_op' \in {"process_received_data", "receive_command", "receive_neuron_data"}
        => connected' = connected

C32_ConnectionFlag == [][C32_ReceiveKeepsFlag]_vars /\ []C32_FlagFollowsSetConnected

\* After set_connected(false), with a packet received and parsed,
\* is_connected has just answered false.
C32_Witness ==
    /\ last_op = "is_connected"
    /\ last_set = Some(FALSE)
    /\ result = FALSE
    /\ delivered # <<>>

-----------------------------------------------------------------------------
(* C33  For a byte stream that follows the wire table, once the whole       *)
(* stream has been received and both receivers have nothing more to return, *)
(* the BLE receiver has returned the same sequence of Commands as the USB   *)
(* receiver.                                                                *)
C33_SameCommands ==
    (/\ input = <<>>
     /\ last_op = "receive_command"
     /\ result = [usb |-> None, ble |-> None])
        => delivered.ble = delivered.usb

-----------------------------------------------------------------------------
(* C34  ble_task and the main loop, interleaved at their await points: the  *)
(* bytes the main loop has fed to the decoder, followed by the chunk that   *)
(* waits in BLE_RX_BUFFER, are chunks of the received stream in the order   *)
(* of their arrival, each at most once; and an iteration of ble_task leaves *)
(* in BLE_RX_BUFFER exactly the chunk process_events put or found there:    *)
(* receive_data's take and the store back neither lose nor double it.       *)

\* a can be got from b by leaving bytes out.
RECURSIVE IsScattered(_, _)
IsScattered(a, b) ==
    IF a = <<>> THEN TRUE
    ELSE IF b = <<>> THEN FALSE
    ELSE IF Head(a) = Head(b) THEN IsScattered(Tail(a), Tail(b))
    ELSE IsScattered(a, Tail(b))

IsSuffix(a, b) == Len(a) <= Len(b) /\ SubSeq(b, Len(b) - Len(a) + 1, Len(b)) = a

Pending == IF BLE_RX_BUFFER = None THEN <<>> ELSE BLE_RX_BUFFER.value

FedInArrivalOrder ==
    \E s \in LoopStreams :
        /\ IsSuffix(input, s)
        /\ IsScattered(fed \o Pending, SubSeq(s, 1, Len(s) - Len(input)))

TakeAndStoreBack ==
    last_op' = "ble_task" =>
        /\ input' = input => BLE_RX_BUFFER' = BLE_RX_BUFFER
        /\ input' # input =>
               BLE_RX_BUFFER' = [tag |-> "Some",
                                 value |-> SubSeq(input, 1, Len(input) - Len(input'))]
        /\ fed' = fed

C34_ChunksInOrderOnce == []FedInArrivalOrder /\ [][TakeAndStoreBack]_vars

\* Two packets arrived in two writes and the main loop has fed both, the
\* second one in its last iteration.
C34_Witness ==
    /\ last_op = "main_loop"
    /\ input = <<>>
    /\ fed = BlePacket(<<<<5, 6>>>>) \o BlePacket(<<<<1, 2>>, <<3, 4>>>>)
    /\ last_call.data = BlePacket(<<<<1, 2>>, <<3, 4>>>>)
    /\ BLE_RX_BUFFER = None

-----------------------------------------------------------------------------
(* C35  A NeuronFiring Command of FeagiProtocol carries at most 25 pairs,   *)
(* and its j-th pair is the two adjacent bytes 2j and 2j + 1 of the payload *)
(* of the frame it was decoded from (byte 1 being the count): never a byte  *)
(* of the header, never a byte behind the frame's payload.                  *)

\* The payload of the frame at the head of buf, as the length byte says.
OwnPayload(buf) == SubSeq(buf, 3, 2 + buf[2])

C35_CoordinatesFromOwnPayload ==
    IsUsb =>
        \A i \in DOMAIN last_call.parsed :
            LET e == last_call.parsed[i]
                own == OwnPayload(e.before)
            IN (e.cmd # None /\ e.cmd.tag = "NeuronFiring") =>
                   /\ Len(e.cmd.coordinates) <= 25
                   /\ \A j \in DOMAIN e.cmd.coordinates :
                          /\ 2 * j + 1 <= Len(own)
                          /\ e.cmd.coordinates[j] = <<own[2 * j], own[2 * j + 1]>>

\* A frame with one pair was decoded to that pair while the bytes of a
\* further NeuronFiring frame lay right behind it in the buffer.
C35_Witness ==
    /\ IsUsb
    /\ \E i \in DOMAIN last_call.parsed :
           LET e == last_call.parsed[i]
           IN /\ e.cmd_id = IdNeuronFiring
              /\ e.payload = <<1, 4, 2>>
              /\ e.cmd = NeuronFiring(<<<<4, 2>>>>)
              /\ IsPrefix(<<IdNeuronFiring>>, e.after)

-----------------------------------------------------------------------------
(* C36  A BluetoothService receive call that returns coordinates removes    *)
(* exactly the 2 + 2*count bytes of the packet at the front of              *)
(* receive_buffer and keeps the bytes behind it, in their order; each call  *)
(* returns at most one packet, and of packets that arrive back to back the  *)
(* calls return the coordinate lists in arrival order.                      *)

\* bytes is a train of packets [0x01, count <= 25, x1, y1, ...], one right
\* behind the other.
RECURSIVE IsPacketTrain(_)
IsPacketTrain(bytes) ==
    \/ bytes = <<>>
    \/ /\ BlePacketAtHead(bytes)
       /\ IsPacketTrain(SubSeq(bytes, 2 * bytes[2] + 3, Len(bytes)))

\* The coordinate lists of a train, as NeuronFiring, first packet first.
RECURSIVE Unpack(_)
Unpack(bytes) ==
    IF bytes = <<>> THEN <<>>
    ELSE <<NeuronFiring([i \in 1..bytes[2] |-> PairOfPacket(bytes, i)])>>
         \o Unpack(SubSeq(bytes, 2 * bytes[2] + 3, Len(bytes)))

C36_ParseRemovesPacket ==
    (/\ IsBle
     /\ last_op' \in {"receive_command", "receive_neuron_data"}
     /\ vars' # vars
     /\ result' # None) =>
        /\ receive_buffer' = SubSeq(receive_buffer, 2 + 2 * receive_buffer[2] + 1,
                                    Len(receive_buffer))
        /\ Len(receive_buffer') = Len(receive_buffer) - (2 + 2 * receive_buffer[2])
        /\ Len(delivered') = Len(delivered) + 1

C36_TrainInOrder ==
    (IsBle /\ Len(fed \o input) <= ReceiveBufferCap /\ IsPacketTrain(fed \o input)) =>
        /\ IsPrefix(delivered, Unpack(fed \o input))
        /\ input = <<>> =>
               /\ IsPacketTrain(receive_buffer)
               /\ delivered \o Unpack(receive_buffer) = Unpack(fed)

C36_PacketsOnePerCall == [][C36_ParseRemovesPacket]_vars /\ []C36_TrainInOrder

\* Two packets arrived back to back in one write; two receive calls returned
\* them, the first packet first.
C36_Witness ==
    /\ IsBle
    /\ fed = BlePacket(<<<<5, 6>>>>) \o BlePacket(<<<<1, 2>>, <<3, 4>>>>)
    /\ last_call.data = fed
    /\ delivered = <<NeuronFiring(<<<<5, 6>>>>), NeuronFiring(<<<<1, 2>>, <<3, 4>>>>)>>
    /\ receive_buffer = <<>>

-----------------------------------------------------------------------------
(* C37  A newline-terminated message in the documented format               *)
(* {"mc":[[neuron_id,value]]} is applied to the outputs: the iteration that *)
(* extracts it drives every allow-listed digital output mapped to           *)
(* neuron_id, high for value 1 and low for value 0.                         *)

\* The text {"mc":[[d,v]]} for a one-digit neuron id d and a value v of 0 or 1.
McMessage(d, v) ==
    <<123, 34, 109, 99, 34, 58, 91, 91, Digit0 + d, 44, Digit0 + v, 93, 93, 125>>

C37_McMessageDrivesOutputs ==
    [][ (IsController /\ IsIteration /\ message_str' # message_str) =>
            \A d \in 0..9, v \in {0, 1} :
                message_str' = McMessage(d, v) =>
                    \A p \in MappedOutputs(Small(U32Limbs, d)) :
                        gpio_out'[p] = IF v = 1 THEN "High" ELSE "Low" ]_vars

-----------------------------------------------------------------------------
(* C38  The stack keeps advertising until connected: after a process_events *)
(* call in which accept() failed or timed out, and after one in which the   *)
(* connection was disconnected, a later process_events call accepts a new   *)
(* connection and sets connected (ble_task keeps calling process_events and *)
(* a central that is offered the chance connects).                          *)
AcceptFailed == last_op = "process_events" /\ last_call.accept = "Err"

Disconnected == last_op = "process_events" /\ last_call.event = "Disconnected"

\* The last process_events call accepted a connection: it stored it and set
\* connected to true.
Accepted == last_op = "process_events" /\ last_call.accept = "Ok"

C38_AdvertisesUntilConnected == (AcceptFailed \/ Disconnected) ~> Accepted

-----------------------------------------------------------------------------
(* C39  Through new, start_advertising, process_events and set_connection   *)
(* the connected flag is true exactly when a connection is stored, and      *)
(* send_notify returns Err("Not connected") exactly when the flag is false. *)
C39_FlagIffConnection ==
    /\ ble_stack.connected <=> ble_stack.connection # None
    /\ last_op = "send_notify" =>
           (result = Err("Not connected") <=> ~ble_stack.connected)

\* A connection was accepted and then disconnected, and send_notify has
\* just returned "Not connected".
C39_Witness ==
    /\ last_op = "send_notify"
    /\ last_call.event = "Disconnected"
    /\ ~ble_stack.connected
    /\ ble_stack.connection = None
    /\ result = Err("Not connected")

====
